---- MODULE Spec2Model ----
(***************************************************************************)
(* charm-linux: the sonification engine (src/audio/engine.rs, mixer.rs)    *)
(* and the granular pitch shifter (src/audio/pitch.rs) as state machines.  *)
(*                                                                         *)
(* f64 quantities of the engine are exact rationals <<numerator,           *)
(* denominator>> in lowest terms with a positive denominator.              *)
(***************************************************************************)
EXTENDS Integers, Sequences, FiniteSets, TLC

VARIABLES
    current_pack,   \* AudioEngine.current_pack: Option<SoundPack>
    is_playing,     \* AudioEngine.is_playing
    cpu_enabled,    \* AudioEngine.cpu_enabled
    ram_enabled,    \* AudioEngine.ram_enabled
    disk_enabled,   \* AudioEngine.disk_enabled
    use_averages,   \* AudioEngine.use_averages
    mixer,          \* AudioEngine.mixer: AudioMixer
    last,           \* history: the last engine call, its arguments and what it returned
    ticks,          \* history: consecutive update() calls with the same snapshot
    shifter,        \* a GranularPitchShifter
    output,         \* what the last process_sample call returned
    inputs,         \* history: the samples given to process_sample since new()/reset()
    grains,         \* history of grain A and grain B: how far read_pos is behind the write head (not wrapped), the calls after warm-up since its last reset, its resets, the calls between its last two, the same counts over the calls on the two-grain path, whether the last call reset it
    element,        \* a GranularPitch element: its state and pitch_ratio mutexes
    flow,           \* what the last call on the element returned, and the buffer it left
    disk_monitor,   \* a DiskMonitor
    clock,          \* the monotonic clock Instant::now() reads, in milliseconds
    disk_call,      \* history: what the last refresh() read from /proc/diskstats
    app,            \* the App: selection, rate, is_monitoring, tray, dialog, update_source_id
    main_context,   \* the glib main context: its timeout sources and whether the main loop runs
    app_call,       \* history: the last handler of the application that ran ("ui": a menu or dialog handler that starts nothing)
    pack_dir,       \* a pack directory: the files in it and what prefs.ini holds
    load_result,    \* what PackLoader::load_pack returned for it, None before the call
    audio_channel,  \* an AudioChannel of a loaded pack
    core_player,    \* the PerCoreCpuPlayer of a pack with the same slide interval
    held,           \* history: the number of updates, the target of the last one, the values when it was first given, and how many updates in a row had it
    system,         \* what sysinfo holds after the last refresh: the usage of each cpu in percent, total and used memory
    snapshot,       \* the SystemMetrics the last SystemMonitor::refresh returned, None before the first
    metric,         \* the last MetricValue made by MetricValue::new, with the value it was given
    mutexes,        \* which thread holds the state mutex and the pitch_ratio mutex of the element
    application,    \* the application thread, where it is in set_property and the pitch it was given
    streaming,      \* the streaming thread, where it is in set_caps, stop or transform_ip, and the locals of the call
    pitch_writes,   \* history, the pitch of the last set_property that returned, the pitches the buffer in progress may use, the ratio each of its samples was processed with, whether set_caps stored a shifter with a pitch other than the property
    holder,         \* whether the Rc<RefCell<App>> made in main() is still held ("held") or was dropped ("dropped")
    tick            \* the update_tick in progress, if any: where it is, the timer that fired, the mixer it started from, and the last callback that found the App gone

engineVars == <<current_pack, is_playing, cpu_enabled, ram_enabled, disk_enabled, use_averages, mixer>>

historyVars == <<last, ticks>>

pitchVars == <<shifter, output, inputs, grains>>

elementVars == <<element, flow>>

diskVars == <<disk_monitor, clock, disk_call>>

appVars == <<app, main_context, app_call>>

loaderVars == <<pack_dir, load_result>>

smoothVars == <<audio_channel, core_player, held>>

monitorVars == <<system, snapshot, metric>>

threadVars == <<mutexes, application, streaming, pitch_writes>>

callbackVars == <<holder, tick>>

vars == <<engineVars, historyVars, pitchVars, elementVars, diskVars, appVars, loaderVars, smoothVars, monitorVars, threadVars, callbackVars>>

\* what the actions of one component leave alone
EngineFrame == UNCHANGED <<pitchVars, elementVars, diskVars, appVars, loaderVars, smoothVars, monitorVars, threadVars, callbackVars>>

PitchFrame == UNCHANGED <<engineVars, historyVars, elementVars, diskVars, appVars, loaderVars, smoothVars, monitorVars, threadVars, callbackVars>>

ElementFrame == UNCHANGED <<engineVars, historyVars, pitchVars, diskVars, appVars, loaderVars, smoothVars, monitorVars, threadVars, callbackVars>>

DiskFrame == UNCHANGED <<engineVars, historyVars, pitchVars, elementVars, appVars, loaderVars, smoothVars, monitorVars, threadVars, callbackVars>>

AppFrame == UNCHANGED <<historyVars, pitchVars, elementVars, diskVars, loaderVars, smoothVars, monitorVars, threadVars, callbackVars>>

LoaderFrame == UNCHANGED <<engineVars, historyVars, pitchVars, elementVars, diskVars, appVars, smoothVars, monitorVars, threadVars, callbackVars>>

SmoothFrame == UNCHANGED <<engineVars, historyVars, pitchVars, elementVars, diskVars, appVars, loaderVars, monitorVars, threadVars, callbackVars>>

MonitorFrame == UNCHANGED <<engineVars, historyVars, pitchVars, elementVars, appVars, loaderVars, smoothVars, threadVars, callbackVars>>

\* the threads work on the element
ThreadFrame == UNCHANGED <<engineVars, historyVars, pitchVars, diskVars, appVars, loaderVars, smoothVars, monitorVars, callbackVars>>

\* the callbacks work on the engine, the sampler and the App
CallbackFrame == UNCHANGED <<pitchVars, elementVars, loaderVars, smoothVars, threadVars>>

----------------------------------------------------------------------------
(* Bounds of the model *)

\* update() is taken only while every smoothed value keeps a denominator <= MaxDen
MaxDen == 4

\* the history counter `ticks` saturates here
MaxTicks == 10

\* process_sample is taken at most this many times after new()/reset()
MaxSamples == 7

\* the disk monitor is refreshed while the clock is at most this many milliseconds
MaxClock == 4

\* max_activity decays only while its denominator is at most this
MaxDiskDen == 2

\* the main context hands out at most this many source ids
MaxSources == 3

\* a [soundpack] section of the model has at most this many keys
MaxKeys == 2

\* a directory listing of the model has at most this many sound files
MaxFiles == 3

\* the smoothing is followed over at most this many updates
MaxUpdates == 4

\* pan positions are computed for players of up to this many cores
MaxCores == 6

----------------------------------------------------------------------------
(* Option<T>: None is the empty sequence, Some(x) the one-element sequence *)

None == <<>>

Some(x) == <<x>>

is_some(o) == o # <<>>

----------------------------------------------------------------------------
(* Exact arithmetic standing for f64 *)

Abs(n) == IF n < 0 THEN -n ELSE n

RECURSIVE GCD(_, _)
GCD(a, b) == IF b = 0 THEN a ELSE GCD(b, a % b)

Rat(n, d) ==
    LET g == GCD(Abs(n), Abs(d))
        s == IF d < 0 THEN -1 ELSE 1
    IN  <<(s * n) \div g, (s * d) \div g>>

Zero == Rat(0, 1)

One == Rat(1, 1)

Half == Rat(1, 2)

RAdd(a, b) == Rat(a[1] * b[2] + b[1] * a[2], a[2] * b[2])

RSub(a, b) == Rat(a[1] * b[2] - b[1] * a[2], a[2] * b[2])

RMul(a, b) == Rat(a[1] * b[1], a[2] * b[2])

RDiv(a, b) == Rat(a[1] * b[2], a[2] * b[1])

RLe(a, b) == a[1] * b[2] <= b[1] * a[2]

RLt(a, b) == a[1] * b[2] < b[1] * a[2]

\* f64::clamp(lo, hi)
clamp(x, lo, hi) == IF RLt(x, lo) THEN lo ELSE IF RLt(hi, x) THEN hi ELSE x

\* f64::max
RMax(a, b) == IF RLt(a, b) THEN b ELSE a

\* f64::sqrt on the core counts of the model, which are perfect squares
sqrt(n) == Rat(CHOOSE r \in 0..n : r * r = n, 1)

----------------------------------------------------------------------------
(* Sound packs (src/pack/loader.rs) *)

\* ChannelSounds::none / single / pair
ChannelSounds_none == [primary |-> None, secondary |-> None]

ChannelSounds_single(path) == [primary |-> Some(path), secondary |-> None]

ChannelSounds_pair(idle, active) == [primary |-> Some(idle), secondary |-> Some(active)]

has_sounds(sounds) == is_some(sounds.primary)

\* UseAverages=1, CPUSoundMode=1, RAMSoundMode=2, SlideInterval=1: averaged CPU
\* in volume mode, RAM crossfading RAM_A/RAM_B, no disk sound
PackAveraged ==
    [name |-> "averaged",
     config |-> [use_averages |-> TRUE, cpu_mode |-> "Volume", ram_mode |-> "Fade",
                 disk_mode |-> "Disabled", slide_interval |-> 1,
                 frequency_fluctuation |-> FALSE],
     cpu_sounds |-> ChannelSounds_single("averaged/CPU.ogg"),
     ram_sounds |-> ChannelSounds_pair("averaged/RAM_A.ogg", "averaged/RAM_B.ogg"),
     disk_sounds |-> ChannelSounds_none]

\* UseAverages=0, SlideInterval=2, FrequencyFluctuation=1: per-core CPU, RAM
\* and disk disabled
PackPerCore ==
    [name |-> "percore",
     config |-> [use_averages |-> FALSE, cpu_mode |-> "Volume", ram_mode |-> "Disabled",
                 disk_mode |-> "Disabled", slide_interval |-> 2,
                 frequency_fluctuation |-> TRUE],
     cpu_sounds |-> ChannelSounds_single("percore/CPU.ogg"),
     ram_sounds |-> ChannelSounds_none,
     disk_sounds |-> ChannelSounds_none]

\* CPUSoundMode=0, DiskSoundMode=2, SlideInterval=0: no CPU sound, no RAM sound
\* found, disk in fade mode with only disk.ogg present (the single-file
\* fallback of resolve_sounds)
PackFade ==
    [name |-> "fade",
     config |-> [use_averages |-> FALSE, cpu_mode |-> "Disabled", ram_mode |-> "Volume",
                 disk_mode |-> "Fade", slide_interval |-> 0,
                 frequency_fluctuation |-> TRUE],
     cpu_sounds |-> ChannelSounds_none,
     ram_sounds |-> ChannelSounds_none,
     disk_sounds |-> ChannelSounds_single("fade/disk.ogg")]

\* UseAverages=1, SlideInterval=2: averaged CPU in volume mode, smoothed over
\* several ticks; nothing else
PackSlow ==
    [name |-> "slow",
     config |-> [use_averages |-> TRUE, cpu_mode |-> "Volume", ram_mode |-> "Disabled",
                 disk_mode |-> "Disabled", slide_interval |-> 2,
                 frequency_fluctuation |-> FALSE],
     cpu_sounds |-> ChannelSounds_single("slow/CPU.ogg"),
     ram_sounds |-> ChannelSounds_none,
     disk_sounds |-> ChannelSounds_none]

Packs == {PackAveraged, PackPerCore, PackFade, PackSlow}

\* SystemMonitor::core_count(), the num_cpu_cores given to load_pack
CoreCounts == {1, 4}

\* which element construction fails inside load_pack, if any
Failures == {"none", "cpu", "ram", "disk"}

----------------------------------------------------------------------------
(* SystemMetrics snapshots (src/monitor/mod.rs); every field is a MetricValue *)

MetricValue_new(x) == clamp(x, Zero, One)

SystemMetrics(cores, average, memory, disk) ==
    [cpu_cores |-> [i \in DOMAIN cores |-> MetricValue_new(cores[i])],
     cpu_average |-> MetricValue_new(average),
     memory |-> MetricValue_new(memory),
     disk |-> MetricValue_new(disk)]

MetricsIdle == SystemMetrics(<<Zero, Zero, Zero, Zero>>, Zero, Zero, Zero)

MetricsBusy == SystemMetrics(<<One, One, One, One>>, One, One, One)

\* a snapshot with fewer per-core values than a four-branch player has
MetricsMixed == SystemMetrics(<<One, Zero>>, Half, One, Zero)

Metrics == {MetricsIdle, MetricsBusy, MetricsMixed}

\* the values handed to set_master_volume: one in range, one above it
Volumes == {Half, Rat(3, 2)}

----------------------------------------------------------------------------
(* PlaybackElement (src/audio/mixer.rs) *)

\* new() that leaves the volume element at the framework's default of 1.0
PlaybackElement_new_default_volume(file_path, pan) ==
    [uri |-> file_path, volume |-> One, panorama |-> pan, state |-> "Null"]

PlaybackElement_new(file_path, pan) ==
    [uri |-> file_path, volume |-> Zero, panorama |-> pan, state |-> "Null"]

PlaybackElement_play(e) == [e EXCEPT !.state = "Playing"]

PlaybackElement_stop(e) == [e EXCEPT !.state = "Null"]

PlaybackElement_set_volume(e, volume) == [e EXCEPT !.volume = clamp(volume, Zero, One)]

\* set_rate is a no-op
PlaybackElement_set_rate(e, rate) == e

\* Option::map over an optional element
map(o, F(_)) == IF is_some(o) THEN Some(F(o[1])) ELSE None

----------------------------------------------------------------------------
(* AudioChannel *)

transition_speed_of(slide_interval) == RDiv(One, RMax(Rat(slide_interval, 1), One))

AudioChannel_new(mode, primary_path, secondary_path, slide_interval, frequency_fluctuation, pan) ==
    [mode |-> mode,
     primary |-> IF is_some(primary_path) THEN Some(PlaybackElement_new(primary_path[1], pan)) ELSE None,
     secondary |-> IF is_some(secondary_path) THEN Some(PlaybackElement_new(secondary_path[1], pan)) ELSE None,
     current_value |-> Zero,
     transition_speed |-> transition_speed_of(slide_interval),
     frequency_fluctuation |-> frequency_fluctuation,
     master_volume |-> One]

AudioChannel_play(ch) ==
    [ch EXCEPT !.primary = map(ch.primary, PlaybackElement_play),
               !.secondary = map(ch.secondary, PlaybackElement_play)]

AudioChannel_stop(ch) ==
    [ch EXCEPT !.primary = map(ch.primary, PlaybackElement_stop),
               !.secondary = map(ch.secondary, PlaybackElement_stop)]

\* a step that jumps to the target
smooth_at_once(current, target, speed) == target

\* the one-pole step: current + (target - current) * transition_speed
smooth(current, target, speed) == RAdd(current, RMul(RSub(target, current), speed))

\* update() that writes the smoothed value without the master volume
AudioChannel_update_unscaled(ch, target_value) ==
    LET target == clamp(target_value, Zero, One)
        cur == smooth(ch.current_value, target, ch.transition_speed)
        ch1 == [ch EXCEPT !.current_value = cur]
        vol(e) == PlaybackElement_set_volume(e, cur)
        idle(e) == PlaybackElement_set_volume(e, RSub(One, cur))
    IN  CASE ch.mode = "Disabled" -> ch1
          [] ch.mode = "Volume" -> [ch1 EXCEPT !.primary = map(ch.primary, vol)]
          [] ch.mode = "Fade" ->
                [ch1 EXCEPT !.primary = map(ch.primary, idle),
                            !.secondary = map(ch.secondary, vol)]

\* update() whose fade mode gives the idle sound the active sound's volume
\* and the active sound the idle one's
AudioChannel_update_swapped(ch, target_value) ==
    LET target == clamp(target_value, Zero, One)
        cur == smooth(ch.current_value, target, ch.transition_speed)
        ch1 == [ch EXCEPT !.current_value = cur]
        vol(e) == PlaybackElement_set_volume(e, RMul(cur, ch.master_volume))
        idle(e) == PlaybackElement_set_volume(e, RMul(RSub(One, cur), ch.master_volume))
    IN  CASE ch.mode = "Disabled" -> ch1
          [] ch.mode = "Volume" -> [ch1 EXCEPT !.primary = map(ch.primary, vol)]
          [] ch.mode = "Fade" ->
                [ch1 EXCEPT !.primary = map(ch.primary, vol),
                            !.secondary = map(ch.secondary, idle)]

\* update() that smooths towards the value as given, not clamped
AudioChannel_update_unclamped(ch, target_value) ==
    LET cur == smooth(ch.current_value, target_value, ch.transition_speed)
        ch1 == [ch EXCEPT !.current_value = cur]
        vol(e) == PlaybackElement_set_volume(e, RMul(cur, ch.master_volume))
        idle(e) == PlaybackElement_set_volume(e, RMul(RSub(One, cur), ch.master_volume))
    IN  CASE ch.mode = "Disabled" -> ch1
          [] ch.mode = "Volume" -> [ch1 EXCEPT !.primary = map(ch.primary, vol)]
          [] ch.mode = "Fade" ->
                [ch1 EXCEPT !.primary = map(ch.primary, idle),
                            !.secondary = map(ch.secondary, vol)]

AudioChannel_update(ch, target_value) ==
    LET target == clamp(target_value, Zero, One)
        cur == smooth(ch.current_value, target, ch.transition_speed)
        ch1 == [ch EXCEPT !.current_value = cur]
        rate == RAdd(Rat(4, 5), RMul(cur, Rat(2, 5)))
        vol(e) == PlaybackElement_set_volume(e, RMul(cur, ch.master_volume))
        volrate(e) == IF ch.frequency_fluctuation
                      THEN PlaybackElement_set_rate(vol(e), rate) ELSE vol(e)
        idle(e) == PlaybackElement_set_volume(e, RMul(RSub(One, cur), ch.master_volume))
    IN  CASE ch.mode = "Disabled" -> ch1
          [] ch.mode = "Volume" -> [ch1 EXCEPT !.primary = map(ch.primary, volrate)]
          [] ch.mode = "Fade" ->
                [ch1 EXCEPT !.primary = map(ch.primary, idle),
                            !.secondary = map(ch.secondary, volrate)]

AudioChannel_set_master_volume(ch, volume) ==
    [ch EXCEPT !.master_volume = clamp(volume, Zero, One)]

\* reset() that leaves the smoothed value as it is
AudioChannel_reset_keeping(ch) == ch

AudioChannel_reset(ch) == [ch EXCEPT !.current_value = Zero]

----------------------------------------------------------------------------
(* PerCoreCpuPlayer: one pipeline, one volume/pitch/panorama branch per core *)

\* a spread that divides by the number of cores, so that the last branch
\* stops short of +1
pan_position_by_count(i, num_cores) ==
    IF num_cores = 1 THEN Zero
    ELSE RAdd(Rat(-1, 1), RDiv(Rat(2 * i, 1), Rat(num_cores, 1)))

\* pan of branch i (0-based) of num_cores branches
pan_position(i, num_cores) ==
    IF num_cores = 1 THEN Zero
    ELSE RAdd(Rat(-1, 1), RDiv(Rat(2 * i, 1), Rat(num_cores - 1, 1)))

PerCoreCpuPlayer_new(file_path, num_cores, slide_interval, frequency_fluctuation) ==
    [uri |-> file_path,
     state |-> "Null",
     volume_elements |-> [i \in 1..num_cores |-> Zero],
     pitch_elements |-> [i \in 1..num_cores |-> One],
     panorama_elements |-> [i \in 1..num_cores |-> pan_position(i - 1, num_cores)],
     current_values |-> [i \in 1..num_cores |-> Zero],
     transition_speed |-> transition_speed_of(slide_interval),
     master_volume |-> One,
     frequency_fluctuation |-> frequency_fluctuation]

PerCoreCpuPlayer_play(pl) == [pl EXCEPT !.state = "Playing"]

PerCoreCpuPlayer_stop(pl) == [pl EXCEPT !.state = "Null"]

core_count(pl) == Len(pl.volume_elements)

\* update_core that divides the volume by the number of cores, not its root
PerCoreCpuPlayer_update_core_linear(pl, core_index, target_value) ==
    IF core_index >= Len(pl.volume_elements) THEN pl
    ELSE LET i == core_index + 1
             target == clamp(target_value, Zero, One)
             smoothed == smooth(pl.current_values[i], target, pl.transition_speed)
             num_cores == Len(pl.volume_elements)
             volume == RDiv(RMul(smoothed, pl.master_volume), Rat(num_cores, 1))
             pitch == RAdd(Rat(4, 5), RMul(smoothed, Rat(2, 5)))
         IN  [pl EXCEPT !.current_values[i] = smoothed,
                        !.volume_elements[i] = clamp(volume, Zero, One),
                        !.pitch_elements[i] =
                            IF pl.frequency_fluctuation THEN pitch ELSE @]

\* core_index is 0-based as in the source; the sequences of the model are 1-based
PerCoreCpuPlayer_update_core(pl, core_index, target_value) ==
    IF core_index >= Len(pl.volume_elements) THEN pl
    ELSE LET i == core_index + 1
             target == clamp(target_value, Zero, One)
             smoothed == smooth(pl.current_values[i], target, pl.transition_speed)
             num_cores == Len(pl.volume_elements)
             volume == RDiv(RMul(smoothed, pl.master_volume), sqrt(num_cores))
             pitch == RAdd(Rat(4, 5), RMul(smoothed, Rat(2, 5)))
         IN  [pl EXCEPT !.current_values[i] = smoothed,
                        !.volume_elements[i] = clamp(volume, Zero, One),
                        !.pitch_elements[i] =
                            IF pl.frequency_fluctuation THEN pitch ELSE @]

PerCoreCpuPlayer_set_master_volume(pl, volume) ==
    [pl EXCEPT !.master_volume = clamp(volume, Zero, One)]

PerCoreCpuPlayer_reset(pl) ==
    [pl EXCEPT !.current_values = [i \in DOMAIN pl.current_values |-> Zero]]

----------------------------------------------------------------------------
(* CpuPlayback and AudioMixer *)

Averaged(ch) == [kind |-> "Averaged", ch |-> ch]

PerCore(player) == [kind |-> "PerCore", player |-> player]

AudioMixer_new ==
    [cpu_playback |-> None, ram_channel |-> None, disk_channel |-> None,
     master_volume |-> One]

\* applies onChannel / onPlayer to whichever CPU playback the mixer holds
map_cpu(cpu, onChannel(_), onPlayer(_)) ==
    IF ~is_some(cpu) THEN None
    ELSE IF cpu[1].kind = "Averaged" THEN Some(Averaged(onChannel(cpu[1].ch)))
    ELSE Some(PerCore(onPlayer(cpu[1].player)))

AudioMixer_play_all(m) ==
    [m EXCEPT !.cpu_playback = map_cpu(m.cpu_playback, AudioChannel_play, PerCoreCpuPlayer_play),
              !.ram_channel = map(m.ram_channel, AudioChannel_play),
              !.disk_channel = map(m.disk_channel, AudioChannel_play)]

AudioMixer_stop_all(m) ==
    [m EXCEPT !.cpu_playback = map_cpu(m.cpu_playback, AudioChannel_stop, PerCoreCpuPlayer_stop),
              !.ram_channel = map(m.ram_channel, AudioChannel_stop),
              !.disk_channel = map(m.disk_channel, AudioChannel_stop)]

AudioMixer_set_master_volume(m, volume) ==
    LET v == clamp(volume, Zero, One)
        onChannel(ch) == AudioChannel_set_master_volume(ch, v)
        onPlayer(pl) == PerCoreCpuPlayer_set_master_volume(pl, v)
    IN  [m EXCEPT !.master_volume = v,
                  !.cpu_playback = map_cpu(m.cpu_playback, onChannel, onPlayer),
                  !.ram_channel = map(m.ram_channel, onChannel),
                  !.disk_channel = map(m.disk_channel, onChannel)]

\* clear() that stops the channels and forgets to drop them
AudioMixer_clear_keeping(m) == AudioMixer_stop_all(m)

\* stop_all, then drop the three channels
AudioMixer_clear(m) ==
    [AudioMixer_stop_all(m) EXCEPT !.cpu_playback = None, !.ram_channel = None,
                                   !.disk_channel = None]

----------------------------------------------------------------------------
(* AudioEngine (src/audio/engine.rs): the effect of each method on the mixer *)

\* stop(): stop_all, then reset every channel's smoothed value
AudioEngine_stop(m) ==
    LET m1 == AudioMixer_stop_all(m)
    IN  [m1 EXCEPT !.cpu_playback = map_cpu(m1.cpu_playback, AudioChannel_reset, PerCoreCpuPlayer_reset),
                   !.ram_channel = map(m1.ram_channel, AudioChannel_reset),
                   !.disk_channel = map(m1.disk_channel, AudioChannel_reset)]

\* load_pack building the per-core player with a single branch whatever the
\* machine's core count
new_cpu_playback_single(pack, num_cpu_cores) ==
    IF pack.config.use_averages
    THEN Averaged(AudioChannel_new(pack.config.cpu_mode, pack.cpu_sounds.primary,
                                   pack.cpu_sounds.secondary, pack.config.slide_interval,
                                   pack.config.frequency_fluctuation, Zero))
    ELSE PerCore(PerCoreCpuPlayer_new(pack.cpu_sounds.primary[1], 1,
                                      pack.config.slide_interval,
                                      pack.config.frequency_fluctuation))

\* the CPU playback load_pack builds for a pack with CPU sounds
new_cpu_playback(pack, num_cpu_cores) ==
    IF pack.config.use_averages
    THEN Averaged(AudioChannel_new(pack.config.cpu_mode, pack.cpu_sounds.primary,
                                   pack.cpu_sounds.secondary, pack.config.slide_interval,
                                   pack.config.frequency_fluctuation, Zero))
    ELSE PerCore(PerCoreCpuPlayer_new(pack.cpu_sounds.primary[1], num_cpu_cores,
                                      pack.config.slide_interval,
                                      pack.config.frequency_fluctuation))

new_channel(mode, sounds, config) ==
    AudioChannel_new(mode, sounds.primary, sounds.secondary, config.slide_interval,
                     config.frequency_fluctuation, Zero)

\* the construction at which load_pack returns early with an error: `fail` when
\* the pack has sounds for that channel and no earlier construction failed
failure_point(pack, fail) ==
    CASE fail = "cpu" /\ has_sounds(pack.cpu_sounds) -> "cpu"
      [] fail = "ram" /\ has_sounds(pack.ram_sounds) -> "ram"
      [] fail = "disk" /\ has_sounds(pack.disk_sounds) -> "disk"
      [] OTHER -> "none"

\* load_pack(): the mixer after stop(), clear() and the constructions that ran
\* before the failure point
AudioEngine_load_pack(m, pack, num_cpu_cores, fail) ==
    LET at == failure_point(pack, fail)
        m1 == AudioMixer_clear(AudioEngine_stop(m))
        m2 == IF has_sounds(pack.cpu_sounds) /\ at # "cpu"
              THEN [m1 EXCEPT !.cpu_playback = Some(new_cpu_playback(pack, num_cpu_cores))]
              ELSE m1
        m3 == IF has_sounds(pack.ram_sounds) /\ at \notin {"cpu", "ram"}
              THEN [m2 EXCEPT !.ram_channel =
                        Some(new_channel(pack.config.ram_mode, pack.ram_sounds, pack.config))]
              ELSE m2
        m4 == IF has_sounds(pack.disk_sounds) /\ at = "none"
              THEN [m3 EXCEPT !.disk_channel =
                        Some(new_channel(pack.config.disk_mode, pack.disk_sounds, pack.config))]
              ELSE m3
    IN  m4

\* a per-core value that wraps around the snapshot's cores when the player has
\* more branches
core_value_wrapping(metrics, i) ==
    IF Len(metrics.cpu_cores) = 0 THEN Zero
    ELSE metrics.cpu_cores[(i % Len(metrics.cpu_cores)) + 1]

\* metrics.cpu_cores.get(i).map(|v| v.get()).unwrap_or(0.0), i 0-based
core_value(metrics, i) ==
    IF i < Len(metrics.cpu_cores) THEN metrics.cpu_cores[i + 1] ELSE Zero

\* for i in 0..player.core_count() { update_core(i, ...) }
RECURSIVE update_cores(_, _, _, _)
update_cores(pl, i, metrics, enabled) ==
    IF i >= core_count(pl) THEN pl
    ELSE update_cores(
            PerCoreCpuPlayer_update_core(pl, i, IF enabled THEN core_value(metrics, i) ELSE Zero),
            i + 1, metrics, enabled)

\* update() that leaves the channel of a disabled metric alone
AudioEngine_update_skipping(m, metrics, cpu_on, ram_on, disk_on) ==
    LET onCpu(ch) == IF cpu_on THEN AudioChannel_update(ch, metrics.cpu_average) ELSE ch
        onCores(pl) == IF cpu_on THEN update_cores(pl, 0, metrics, cpu_on) ELSE pl
        onRam(ch) == IF ram_on THEN AudioChannel_update(ch, metrics.memory) ELSE ch
        onDisk(ch) == IF disk_on THEN AudioChannel_update(ch, metrics.disk) ELSE ch
    IN  [m EXCEPT !.cpu_playback = map_cpu(m.cpu_playback, onCpu, onCores),
                  !.ram_channel = map(m.ram_channel, onRam),
                  !.disk_channel = map(m.disk_channel, onDisk)]

\* update(): CPU playback, then RAM channel, then disk channel
AudioEngine_update(m, metrics, cpu_on, ram_on, disk_on) ==
    LET onCpu(ch) == AudioChannel_update(ch, IF cpu_on THEN metrics.cpu_average ELSE Zero)
        onCores(pl) == update_cores(pl, 0, metrics, cpu_on)
        onRam(ch) == AudioChannel_update(ch, IF ram_on THEN metrics.memory ELSE Zero)
        onDisk(ch) == AudioChannel_update(ch, IF disk_on THEN metrics.disk ELSE Zero)
    IN  [m EXCEPT !.cpu_playback = map_cpu(m.cpu_playback, onCpu, onCores),
                  !.ram_channel = map(m.ram_channel, onRam),
                  !.disk_channel = map(m.disk_channel, onDisk)]

\* the first block of update(): the CPU playback
update_cpu_playback(m, metrics, cpu_on) ==
    LET onCpu(ch) == AudioChannel_update(ch, IF cpu_on THEN metrics.cpu_average ELSE Zero)
        onCores(pl) == update_cores(pl, 0, metrics, cpu_on)
    IN  [m EXCEPT !.cpu_playback = map_cpu(m.cpu_playback, onCpu, onCores)]

\* update() that passes the RAM channel by
update_ram_channel_skipped(m, metrics, ram_on) == m

\* the second block of update(): the RAM channel
update_ram_channel(m, metrics, ram_on) ==
    LET onRam(ch) == AudioChannel_update(ch, IF ram_on THEN metrics.memory ELSE Zero)
    IN  [m EXCEPT !.ram_channel = map(m.ram_channel, onRam)]

\* the third block of update(): the disk channel
update_disk_channel(m, metrics, disk_on) ==
    LET onDisk(ch) == AudioChannel_update(ch, IF disk_on THEN metrics.disk ELSE Zero)
    IN  [m EXCEPT !.disk_channel = map(m.disk_channel, onDisk)]

----------------------------------------------------------------------------
(* Views of the mixer *)

\* the AudioChannels the mixer holds (the averaged CPU channel, RAM, disk)
Channels(m) ==
    (IF is_some(m.cpu_playback) /\ m.cpu_playback[1].kind = "Averaged"
     THEN {m.cpu_playback[1].ch} ELSE {})
    \cup (IF is_some(m.ram_channel) THEN {m.ram_channel[1]} ELSE {})
    \cup (IF is_some(m.disk_channel) THEN {m.disk_channel[1]} ELSE {})

\* the per-core players the mixer holds (none or one)
Players(m) ==
    IF is_some(m.cpu_playback) /\ m.cpu_playback[1].kind = "PerCore"
    THEN {m.cpu_playback[1].player} ELSE {}

\* the PlaybackElements of a channel
Elements(ch) ==
    (IF is_some(ch.primary) THEN {ch.primary[1]} ELSE {})
    \cup (IF is_some(ch.secondary) THEN {ch.secondary[1]} ELSE {})

\* every smoothed value of the mixer
SmoothedValues(m) ==
    {ch.current_value : ch \in Channels(m)}
    \cup UNION {{pl.current_values[i] : i \in DOMAIN pl.current_values} : pl \in Players(m)}

\* every volume property of the mixer's pipelines
ElementVolumes(m) ==
    UNION {{e.volume : e \in Elements(ch)} : ch \in Channels(m)}
    \cup UNION {{pl.volume_elements[i] : i \in DOMAIN pl.volume_elements} : pl \in Players(m)}

\* every pipeline state of the mixer
PipelineStates(m) ==
    UNION {{e.state : e \in Elements(ch)} : ch \in Channels(m)}
    \cup {pl.state : pl \in Players(m)}

\* the smoothed values stay within the precision the model follows
Bounded(m) == \A v \in SmoothedValues(m) : v[2] <= MaxDen

----------------------------------------------------------------------------
(* GranularPitchShifter (src/audio/pitch.rs).  buffer is 1-based here, so    *)
(* buffer[i + 1] is the source's buffer[i]; positions stay 0-based.  f32/f64 *)
(* samples, positions, phases and ratios are exact rationals.                *)

\* grain_ms of the element (25 ms grains)
GrainMs == 25

\* sample rates, scaled down so that grain_size is 2 or 3 (odd)
SampleRates == {80, 120}

\* the samples fed to process_sample: non-zero, so that silence is told apart
Samples == {Rat(1, 1), Rat(2, 1)}

\* the ratios given to set_pitch_ratio: below the range, exactly 1.0, within
\* 0.001 of 1.0, the top of the range
Ratios == {Rat(1, 8), One, Rat(2001, 2000), Rat(4, 1)}

GrainReader_new(read_pos, grain_phase) == [read_pos |-> read_pos, grain_phase |-> grain_phase]

GranularPitchShifter_new(sample_rate, grain_ms) ==
    LET grain_size == (sample_rate * grain_ms) \div 1000
        delay_samples == grain_size
        buffer_size == grain_size * 4
    IN  [buffer |-> [i \in 1..buffer_size |-> Zero],
         write_pos |-> delay_samples,
         grain_a |-> GrainReader_new(Zero, Zero),
         grain_b |-> GrainReader_new(Zero, Half),
         grain_size |-> grain_size,
         pitch_ratio |-> One,
         delay_samples |-> delay_samples,
         samples_written |-> 0]

GranularPitchShifter_set_pitch_ratio(sh, ratio) ==
    [sh EXCEPT !.pitch_ratio = clamp(ratio, Rat(1, 4), Rat(4, 1))]

\* floor of a non-negative rational
floor(x) == x[1] \div x[2]

\* 0.5 * (1 - cos(2 pi phase)), which is rational at the phases a grain of
\* size 2, 3, 4 or 6 takes (the multiples of 1/4 and of 1/6)
hann_fade(phase) ==
    LET k == (12 * phase[1]) \div phase[2]
    IN  CASE k \in {0, 12} /\ 12 * phase[1] = k * phase[2] -> Zero
          [] k \in {2, 10} /\ 12 * phase[1] = k * phase[2] -> Rat(1, 4)
          [] k \in {3, 9} /\ 12 * phase[1] = k * phase[2] -> Rat(1, 2)
          [] k \in {4, 8} /\ 12 * phase[1] = k * phase[2] -> Rat(3, 4)
          [] k = 6 /\ 12 * phase[1] = k * phase[2] -> One

\* linear interpolation between buffer[index] and buffer[index + 1]
read_interpolated(sh, pos) ==
    LET buffer_len == Len(sh.buffer)
        pos_wrapped == RSub(pos, Rat(buffer_len * (floor(pos) \div buffer_len), 1))
        index == floor(pos_wrapped)
        frac == RSub(pos_wrapped, Rat(index, 1))
        next_index == (index + 1) % buffer_len
        s0 == sh.buffer[index + 1]
        s1 == sh.buffer[next_index + 1]
    IN  RAdd(s0, RMul(RSub(s1, s0), frac))

\* |pitch_ratio - 1.0| < 0.001
is_bypass(pitch_ratio) ==
    LET d == RSub(pitch_ratio, One)
    IN  RLt(IF RLt(d, Zero) THEN RSub(Zero, d) ELSE d, Rat(1, 1000))

\* the index one further behind the write position than delay_samples
delay_position_behind(write_pos, buffer_len, delay_samples) ==
    (write_pos + buffer_len - delay_samples - 1) % buffer_len

\* the index delay_samples behind the write position
delay_position(write_pos, buffer_len, delay_samples) ==
    (write_pos + buffer_len - delay_samples) % buffer_len

\* a grain whose reset restarts its phase at 0.0 instead of subtracting 1.0
advance_grain_restarting(g, sh1) ==
    LET buffer_len == Len(sh1.buffer)
        phase == RAdd(g.grain_phase, Rat(1, sh1.grain_size))
        pos == RAdd(g.read_pos, sh1.pitch_ratio)
        wrapped == IF RLe(Rat(buffer_len, 1), pos) THEN RSub(pos, Rat(buffer_len, 1)) ELSE pos
    IN  IF RLe(One, phase)
        THEN [read_pos |-> Rat(delay_position(sh1.write_pos, buffer_len, sh1.delay_samples), 1),
              grain_phase |-> Zero]
        ELSE [read_pos |-> wrapped, grain_phase |-> phase]

\* one grain after the phase and position advance, the wrap and the reset
advance_grain(g, sh1) ==
    LET buffer_len == Len(sh1.buffer)
        phase == RAdd(g.grain_phase, Rat(1, sh1.grain_size))
        pos == RAdd(g.read_pos, sh1.pitch_ratio)
        wrapped == IF RLe(Rat(buffer_len, 1), pos) THEN RSub(pos, Rat(buffer_len, 1)) ELSE pos
    IN  IF RLe(One, phase)
        THEN [read_pos |-> Rat(delay_position(sh1.write_pos, buffer_len, sh1.delay_samples), 1),
              grain_phase |-> RSub(phase, One)]
        ELSE [read_pos |-> wrapped, grain_phase |-> phase]

\* an initial fill that waits for the delay only
warming_up_short(sh1) == sh1.samples_written < sh1.delay_samples

\* the initial fill test, made after samples_written has counted the input
warming_up(sh1) == sh1.samples_written < sh1.delay_samples + sh1.grain_size

\* process_sample(input): the shifter afterwards and the sample returned
GranularPitchShifter_process_sample(sh, input) ==
    LET buffer_len == Len(sh.buffer)
        sh1 == [sh EXCEPT !.buffer[sh.write_pos + 1] = input,
                          !.write_pos = (sh.write_pos + 1) % buffer_len,
                          !.samples_written = sh.samples_written + 1]
        sample_a == read_interpolated(sh1, sh1.grain_a.read_pos)
        sample_b == read_interpolated(sh1, sh1.grain_b.read_pos)
        fade_a == hann_fade(sh1.grain_a.grain_phase)
        fade_b == hann_fade(sh1.grain_b.grain_phase)
    IN  IF warming_up(sh1)
        THEN [shifter |-> sh1, output |-> Zero]
        ELSE IF is_bypass(sh1.pitch_ratio)
        THEN [shifter |-> sh1,
              output |-> sh1.buffer[delay_position(sh1.write_pos, buffer_len, sh1.delay_samples) + 1]]
        ELSE [shifter |-> [sh1 EXCEPT !.grain_a = advance_grain(sh1.grain_a, sh1),
                                      !.grain_b = advance_grain(sh1.grain_b, sh1)],
              output |-> RAdd(RMul(sample_a, fade_a), RMul(sample_b, fade_b))]

GranularPitchShifter_reset(sh) ==
    [sh EXCEPT !.buffer = [i \in DOMAIN sh.buffer |-> Zero],
               !.write_pos = sh.delay_samples,
               !.grain_a = GrainReader_new(Zero, Zero),
               !.grain_b = GrainReader_new(Zero, Half),
               !.samples_written = 0]

\* the history of one grain after new() or reset(): write_pos is delay_samples
\* and read_pos is 0.0
grain_new(sh) ==
    [behind |-> RSub(Rat(sh.write_pos, 1), sh.grain_a.read_pos), since |-> 0, steps |-> 0, resets |-> 0, gap |-> 0, run |-> 0, reset |-> FALSE]

grains_new(sh) == [a |-> grain_new(sh), b |-> grain_new(sh)]

\* the call took the two-grain path: neither the warm-up return nor the bypass return
granular(sh1) == ~warming_up(sh1) /\ ~is_bypass(sh1.pitch_ratio)

\* the history of one grain after a process_sample call that took the
\* shifter from sh to sh1; g is the grain before the call
grain_after(h, g, sh1) ==
    LET wraps == granular(sh1) /\ RLe(One, RAdd(g.grain_phase, Rat(1, sh1.grain_size)))
        calls == IF warming_up(sh1) THEN h.since ELSE h.since + 1
        advances == IF granular(sh1) THEN h.steps + 1 ELSE h.steps
    IN  IF wraps
        THEN [behind |-> Rat(sh1.delay_samples, 1), since |-> 0, steps |-> 0, resets |-> h.resets + 1,
              gap |-> calls, run |-> advances, reset |-> TRUE]
        ELSE [behind |-> IF granular(sh1)
                         THEN RSub(RAdd(h.behind, One), sh1.pitch_ratio)
                         ELSE RAdd(h.behind, One),
              since |-> calls, steps |-> advances, resets |-> h.resets, gap |-> h.gap, run |-> h.run, reset |-> FALSE]

grains_after(hs, sh, sh1) ==
    [a |-> grain_after(hs.a, sh.grain_a, sh1), b |-> grain_after(hs.b, sh.grain_b, sh1)]

----------------------------------------------------------------------------
(* GranularPitch, the element around the shifter (src/audio/pitch.rs) *)

\* the values given to the "pitch" property: below the range, 1.0, above it
ElementPitches == {Rat(1, 8), One, Rat(5, 1)}

\* the sample rates of the negotiated caps
ElementRates == {80}

\* the buffers handed to transform_ip
Buffers == {<<Rat(1, 1)>>, <<Rat(2, 1), Rat(1, 1)>>}

\* #[derive(Default)]: no shifter, and the f64 default for pitch_ratio
GranularPitch_default == [state |-> None, pitch_ratio |-> Zero]

\* set_property that writes the value into the shifter as it is
GranularPitch_set_property_unclamped(el, pitch) ==
    [el EXCEPT !.pitch_ratio = pitch,
               !.state = IF is_some(el.state)
                         THEN Some([el.state[1] EXCEPT !.pitch_ratio = pitch])
                         ELSE None]

GranularPitch_set_property(el, pitch) ==
    [el EXCEPT !.pitch_ratio = pitch,
               !.state = IF is_some(el.state)
                         THEN Some(GranularPitchShifter_set_pitch_ratio(el.state[1], pitch))
                         ELSE None]

GranularPitch_set_caps(el, sample_rate) ==
    LET grain_ms == GrainMs
        shifter0 == GranularPitchShifter_new(sample_rate, grain_ms)
    IN  [el EXCEPT !.state = Some(GranularPitchShifter_set_pitch_ratio(shifter0, el.pitch_ratio))]

GranularPitch_stop(el) == [el EXCEPT !.state = None]

\* the loop of transform_ip: every sample of the buffer through the one shifter
RECURSIVE process_buffer(_, _, _)
process_buffer(sh, samples, done) ==
    IF samples = <<>>
    THEN [shifter |-> sh, samples |-> done]
    ELSE LET r == GranularPitchShifter_process_sample(sh, Head(samples))
         IN  process_buffer(r.shifter, Tail(samples), Append(done, r.output))

\* transform_ip(buf): the element afterwards, the flow return and the buffer
GranularPitch_transform_ip(el, buf, map_ok) ==
    IF ~is_some(el.state)
    THEN [element |-> el, result |-> "NotNegotiated", buf |-> buf]
    ELSE LET sh == GranularPitchShifter_set_pitch_ratio(el.state[1], el.pitch_ratio)
             r == process_buffer(sh, buf, <<>>)
         IN  IF ~map_ok
             THEN [element |-> [el EXCEPT !.state = Some(sh)], result |-> "Error", buf |-> buf]
             ELSE [element |-> [el EXCEPT !.state = Some(r.shifter)], result |-> "Ok", buf |-> r.samples]

\* --- the element shared by two threads: set_property comes from the
\* application thread, set_caps, stop and transform_ip from the streaming
\* thread; each Mutex::lock() is a step of its own

\* the values the application gives to the "pitch" property
ThreadPitches == {Rat(1, 8), Rat(2, 1)}

\* the buffers of the streaming thread
ThreadBuffers == {<<Rat(1, 1), Rat(2, 1)>>}

\* transform_ip keeping the ratio the shifter already has
update_pitch_ratio_kept(sh, pitch) == sh

\* transform_ip: shifter.set_pitch_ratio(*self.pitch_ratio.lock().unwrap())
update_pitch_ratio(sh, pitch) == GranularPitchShifter_set_pitch_ratio(sh, pitch)

Mutex_lock(ms, name, thread) == [ms EXCEPT ![name] = thread]

\* the guard goes out of scope
Mutex_unlock(ms, name) == [ms EXCEPT ![name] = "free"]

streaming_idle == [pc |-> "idle", shifter |-> None, buf |-> <<>>, i |-> 0, map_ok |-> TRUE]

InitThreads ==
    /\ mutexes = [state |-> "free", pitch_ratio |-> "free"]
    /\ application = [pc |-> "idle", pitch |-> Zero]
    /\ streaming = streaming_idle
    /\ pitch_writes = [returned |-> None, covered |-> FALSE, candidates |-> {}, used |-> <<>>, stale |-> FALSE]

----------------------------------------------------------------------------
(* DiskMonitor (src/monitor/disk.rs). A string is the sequence of its
   characters; /proc/diskstats is None when it cannot be read and otherwise
   the sequence of its lines, a line being the sequence of its fields. *)

AsciiDigits == <<"0", "1", "2", "3", "4", "5", "6", "7", "8", "9">>

is_ascii_digit(c) == \E i \in 1..10 : AsciiDigits[i] = c

is_ascii_alphabetic(c) ==
    c \in {"a", "b", "c", "d", "e", "f", "g", "h", "i", "j", "k", "l", "m",
           "n", "o", "p", "q", "r", "s", "t", "u", "v", "w", "x", "y", "z"}

starts_with(str, prefix) ==
    Len(str) >= Len(prefix) /\ SubSeq(str, 1, Len(prefix)) = prefix

\* chars().skip_while(|c| c.is_ascii_digit()).collect()
RECURSIVE skip_while_digit(_)
skip_while_digit(str) ==
    IF str # <<>> /\ is_ascii_digit(Head(str)) THEN skip_while_digit(Tail(str)) ELSE str

\* str.find(c): the 0-based position of the first c
find(str, c) ==
    IF \E i \in 1..Len(str) : str[i] = c
    THEN Some((CHOOSE i \in 1..Len(str) : str[i] = c /\ \A j \in 1..(i - 1) : str[j] # c) - 1)
    ELSE None

is_physical_device(device_name) ==
    IF \/ starts_with(device_name, <<"l", "o", "o", "p">>)
       \/ starts_with(device_name, <<"r", "a", "m">>)
       \/ starts_with(device_name, <<"d", "m", "-">>)
    THEN FALSE
    ELSE IF starts_with(device_name, <<"n", "v", "m", "e">>)
    THEN LET n_pos == find(device_name, "n")
         IN  IF is_some(n_pos)
             THEN LET after_n == SubSeq(device_name, n_pos[1] + 2, Len(device_name))
                      after_namespace == skip_while_digit(after_n)
                  IN  ~starts_with(after_namespace, <<"p">>)
             ELSE TRUE
    ELSE IF starts_with(device_name, <<"m", "m", "c", "b", "l", "k">>)
    THEN LET after_prefix == SubSeq(device_name, 7, Len(device_name))
             after_device_num == skip_while_digit(after_prefix)
         IN  ~starts_with(after_device_num, <<"p">>)
    ELSE device_name # <<>> /\ is_ascii_alphabetic(device_name[Len(device_name)])

\* the value of a string of decimal digits
RECURSIVE digits_value(_, _)
digits_value(str, acc) ==
    IF str = <<>> THEN acc
    ELSE digits_value(Tail(str), 10 * acc + ((CHOOSE i \in 1..10 : AsciiDigits[i] = Head(str)) - 1))

\* str.parse::<u64>(): an optional '+' and then decimal digits only (the texts
\* of the model are short, so the value always fits in 64 bits)
parse_u64(str) ==
    LET body == IF str # <<>> /\ Head(str) = "+" THEN Tail(str) ELSE str
    IN  IF body = <<>> \/ \E i \in 1..Len(body) : ~is_ascii_digit(body[i])
        THEN None
        ELSE Some(digits_value(body, 0))

\* the loop of read_disk_stats over the lines, with the totals so far
RECURSIVE sum_lines(_, _)
sum_lines(lines, totals) ==
    IF lines = <<>> THEN totals
    ELSE LET parts == Head(lines)
             read == parse_u64(parts[6])
             write == parse_u64(parts[10])
         IN  IF Len(parts) < 14 \/ ~is_physical_device(parts[3])
             THEN sum_lines(Tail(lines), totals)
             ELSE IF is_some(read) /\ is_some(write)
             THEN sum_lines(Tail(lines), <<totals[1] + read[1], totals[2] + write[1]>>)
             ELSE sum_lines(Tail(lines), totals)

read_disk_stats(content) ==
    IF ~is_some(content) THEN <<0, 0>> ELSE sum_lines(content[1], <<0, 0>>)

MIN_MAX_ACTIVITY == Rat(1000, 1)

\* a - b without the saturation: the distance between the two counters
abs_diff(a, b) == IF a >= b THEN a - b ELSE b - a

\* u64::saturating_sub
saturating_sub(a, b) == IF a >= b THEN a - b ELSE 0

\* a decay without the floor
decay_unfloored(max_activity) == RMul(max_activity, Rat(999, 1000))

\* no decay at all
decay_held(max_activity) == max_activity

\* the slow decay of max_activity, never below the floor
decay(max_activity) == RMax(RMul(max_activity, Rat(999, 1000)), MIN_MAX_ACTIVITY)

\* DiskMonitor::new() when /proc/diskstats holds `content` at time `now`
DiskMonitor_new(content, now) ==
    LET totals == read_disk_stats(content)
    IN  [last_read_sectors |-> totals[1],
         last_write_sectors |-> totals[2],
         last_time |-> now,
         activity_level |-> Zero,
         max_activity |-> MIN_MAX_ACTIVITY]

\* a refresh whose maximum only decays, a new peak or not
measure_decaying(d, totals, elapsed) ==
    LET read_delta == saturating_sub(totals[1], d.last_read_sectors)
        write_delta == saturating_sub(totals[2], d.last_write_sectors)
        total_delta == read_delta + write_delta
        activity_level == RDiv(Rat(total_delta, 1), elapsed)
    IN  [d EXCEPT !.activity_level = activity_level,
                  !.max_activity = decay(d.max_activity)]

\* the rate and the maximum after a refresh that saw time pass
measure(d, totals, elapsed) ==
    LET read_delta == saturating_sub(totals[1], d.last_read_sectors)
        write_delta == saturating_sub(totals[2], d.last_write_sectors)
        total_delta == read_delta + write_delta
        activity_level == RDiv(Rat(total_delta, 1), elapsed)
    IN  [d EXCEPT !.activity_level = activity_level,
                  !.max_activity = IF RLt(d.max_activity, activity_level)
                                   THEN activity_level
                                   ELSE decay(d.max_activity)]

\* refresh() when /proc/diskstats holds `content` at time `now`
DiskMonitor_refresh(d, content, now) ==
    LET totals == read_disk_stats(content)
        elapsed == Rat(now - d.last_time, 1000)
        d1 == IF RLt(Zero, elapsed) THEN measure(d, totals, elapsed) ELSE d
    IN  [d1 EXCEPT !.last_read_sectors = totals[1],
                   !.last_write_sectors = totals[2],
                   !.last_time = now]

DiskMonitor_activity(d) == MetricValue_new(RDiv(d.activity_level, d.max_activity))

\* a number as the kernel prints it
RECURSIVE to_text(_)
to_text(n) == IF n < 10 THEN <<AsciiDigits[n + 1]>> ELSE Append(to_text(n \div 10), AsciiDigits[(n % 10) + 1])

\* one line of /proc/diskstats: major, minor, name and the eleven counters,
\* sectors read being the third of them and sectors written the seventh
DiskLine(device_name, read, write) ==
    <<<<"8">>, <<"0">>, device_name,
      <<"0">>, <<"0">>, to_text(read), <<"0">>,
      <<"0">>, <<"0">>, to_text(write), <<"0">>,
      <<"0">>, <<"0">>, <<"0">>>>

Dev_sda == <<"s", "d", "a">>

Dev_sda1 == <<"s", "d", "a", "1">>

Dev_hda == <<"h", "d", "a">>

Dev_vda == <<"v", "d", "a">>

Dev_xvda == <<"x", "v", "d", "a">>

Dev_nvme0n1 == <<"n", "v", "m", "e", "0", "n", "1">>

Dev_nvme0n1p1 == <<"n", "v", "m", "e", "0", "n", "1", "p", "1">>

Dev_nvme0n1p2 == <<"n", "v", "m", "e", "0", "n", "1", "p", "2">>

Dev_mmcblk0 == <<"m", "m", "c", "b", "l", "k", "0">>

Dev_mmcblk0p1 == <<"m", "m", "c", "b", "l", "k", "0", "p", "1">>

Dev_loop0 == <<"l", "o", "o", "p", "0">>

Dev_ram0 == <<"r", "a", "m", "0">>

Dev_dm0 == <<"d", "m", "-", "0">>

\* three whole devices with a partition each and two virtual devices, after
\* t units of traffic; a partition shows the traffic of its device
MixedStats(t) ==
    Some(<<DiskLine(Dev_sda, t, 0), DiskLine(Dev_sda1, t, 0),
           DiskLine(Dev_nvme0n1, 2 * t, t), DiskLine(Dev_nvme0n1p2, 2 * t, t),
           DiskLine(Dev_loop0, t, t), DiskLine(Dev_dm0, t, t),
           DiskLine(Dev_mmcblk0, 0, t), DiskLine(Dev_mmcblk0p1, 0, t)>>)

\* one whole device, a line cut short and a line whose counter is no number
SingleStats(read, write) ==
    Some(<<DiskLine(Dev_sda, read, write),
           <<<<"8">>, <<"16">>, Dev_hda, <<"7">>>>,
           [DiskLine(Dev_vda, 7, 7) EXCEPT ![6] = <<"-", "7">>]>>)

\* what /proc/diskstats can hold when it is read
DiskStats ==
    {None} \cup {MixedStats(t) : t \in {1, 2}}
           \cup {SingleStats(c[1], c[2]) : c \in {<<0, 0>>, <<1, 0>>, <<1, 1>>, <<3, 1>>, <<2, 3>>}}

\* the milliseconds between two readings of the clock
Elapsed == {0, 1, 2}

----------------------------------------------------------------------------
(* App (src/app.rs) with the glib main context its timers live in *)

\* RefreshRate as milliseconds (src/ui/tray.rs)
RefreshRates == {100, 250, 500, 1000}

RefreshRate_Normal == 250

\* what scan_packs found when the App was made
available_packs == <<PackAveraged, PackFade>>

\* what scan_packs finds when the pack selector reloads: the same directory, or
\* the directory after a pack was added to it
ScannedPacks == {<<PackAveraged, PackFade>>, <<PackAveraged, PackFade, PackSlow>>}

\* the most rows the pack list of the dialog shows
MaxRows == 3

\* SystemMonitor::core_count()
AppCoreCount == 4

\* the snapshot a tick samples
AppMetrics == {MetricsBusy}

\* the volume levels of the tray menu
AppVolumes == {Half}

\* App::new(): nothing selected, the normal rate, not monitoring, no tray, no
\* dialog, no timer recorded
App_new ==
    [available_packs |-> available_packs,
     selected_pack_index |-> None,
     refresh_rate |-> RefreshRate_Normal,
     is_monitoring |-> FALSE,
     tray |-> FALSE,
     startup_dialog |-> None,
     update_source_id |-> None]

\* a main context without sources whose loop does not run yet
MainContext_new == [sources |-> {}, next_id |-> 1, running |-> FALSE]

\* glib::timeout_add_local: a new source under a fresh id
timeout_add_local(ctx, interval) ==
    [ctx EXCEPT !.sources = @ \cup {[id |-> ctx.next_id, interval |-> interval]},
                !.next_id = @ + 1]

\* SourceId::remove
source_remove(ctx, source_id) ==
    [ctx EXCEPT !.sources = {src \in @ : src.id # source_id}]

\* start_update_loop: a timer at the current rate, recorded as update_source_id
start_update_loop(a, ctx) ==
    [app |-> [a EXCEPT !.update_source_id = Some(ctx.next_id)],
     main_context |-> timeout_add_local(ctx, a.refresh_rate)]

\* set_refresh_rate: take and remove the recorded timer, then start_update_loop
App_set_refresh_rate(a, ctx, rate) ==
    LET a1 == [a EXCEPT !.refresh_rate = rate, !.update_source_id = None]
        ctx1 == IF is_some(a.update_source_id)
                THEN source_remove(ctx, a.update_source_id[1]) ELSE ctx
    IN  start_update_loop(a1, ctx1)

\* the App part of shutdown()
App_shutdown(a, ctx) ==
    [app |-> [a EXCEPT !.is_monitoring = FALSE, !.update_source_id = None],
     main_context |-> IF is_some(a.update_source_id)
                      THEN source_remove(ctx, a.update_source_id[1]) ELSE ctx]

\* StartupDialog::set_packs: the rows are removed, which unselects the selected
\* row, and one row "pack_<index>" per pack is added
StartupDialog_set_packs(d, packs) == [d EXCEPT !.rows = packs, !.selected_row = None]

\* the row_selected handler that connect_selection_changed installs over its
\* own copy `packs` of the pack list: the description and the Start button
\* follow packs.get(index); the result is the dialog and the index passed to
\* the callback
row_selected(d, row) ==
    LET hit == is_some(row) /\ row[1] < Len(d.packs)
    IN  [dialog |-> [d EXCEPT !.selected_row = row,
                              !.description = IF hit THEN Some(d.packs[row[1] + 1].name) ELSE None,
                              !.start_sensitive = hit],
         index |-> IF hit THEN row ELSE None]

\* show_startup_dialog: a new dialog listing the packs, whose selection handler
\* captures a clone of the list
show_dialog(a) ==
    [a EXCEPT !.startup_dialog =
        Some([visible |-> TRUE, rows |-> a.available_packs, packs |-> a.available_packs,
              selected_row |-> None, description |-> None, start_sensitive |-> FALSE])]

\* show_pack_selector: reload_packs, then set_packs on the dialog there is and
\* show it, or a new dialog. Removing a selected row runs the handler with no
\* row while the App is borrowed, so its callback cannot store the index.
show_pack_selector(a, scanned) ==
    LET a1 == [a EXCEPT !.available_packs = scanned]
    IN  IF is_some(a.startup_dialog)
        THEN LET d == a.startup_dialog[1]
                 unselected == IF is_some(d.selected_row) THEN row_selected(d, None).dialog ELSE d
             IN  [a1 EXCEPT !.startup_dialog =
                     Some([StartupDialog_set_packs(unselected, scanned) EXCEPT !.visible = TRUE])]
        ELSE show_dialog(a1)

hide_dialog(a) ==
    [a EXCEPT !.startup_dialog = IF is_some(@) THEN Some([@[1] EXCEPT !.visible = FALSE]) ELSE @]

dialog_visible(a) == is_some(a.startup_dialog) /\ a.startup_dialog[1].visible

----------------------------------------------------------------------------
(* PackLoader (src/pack/loader.rs). A file name and the text of a value are
   sequences of one-character strings, as in the disk monitor. A pack
   directory is its name, the set of the names of the files in it, and what
   Ini::load_from_file makes of its prefs.ini: None when the file is missing
   or malformed, else the [soundpack] section (None when there is none) as a
   function from the keys present to the texts of their values. *)

Ok(value) == [ok |-> TRUE, value |-> value]

Err(error) == [ok |-> FALSE, error |-> error]

\* from_int that takes every number outside 0..2 for Disabled
SoundMode_from_int_strict(value) ==
    CASE value = 1 -> "Volume"
      [] value = 2 -> "Fade"
      [] OTHER -> "Disabled"

\* SoundMode::from_int
SoundMode_from_int(value) ==
    CASE value = 0 -> "Disabled"
      [] value = 1 -> "Volume"
      [] value = 2 -> "Fade"
      [] OTHER -> "Volume"

\* impl Default for SoundPackConfig
SoundPackConfig_default ==
    [use_averages |-> FALSE, cpu_mode |-> "Volume", ram_mode |-> "Volume",
     disk_mode |-> "Volume", slide_interval |-> 20, frequency_fluctuation |-> FALSE]

digit_of(c) == (CHOOSE i \in 1..10 : AsciiDigits[i] = c) - 1

\* the checked multiply-and-add loop of str::parse over decimal digits: None
\* as soon as 10 * acc + digit would pass 10 * limit_div + limit_mod
RECURSIVE checked_value(_, _, _, _)
checked_value(str, acc, limit_div, limit_mod) ==
    IF str = <<>> THEN Some(acc)
    ELSE LET d == digit_of(Head(str))
         IN  IF acc > limit_div \/ (acc = limit_div /\ d > limit_mod) THEN None
             ELSE checked_value(Tail(str), 10 * acc + d, limit_div, limit_mod)

\* str.parse::<i32>(): an optional sign, at least one decimal digit and nothing
\* else; None when the value is outside -2147483648..2147483647
parse_i32(str) ==
    LET negative == str # <<>> /\ Head(str) = "-"
        body == IF str # <<>> /\ Head(str) \in {"+", "-"} THEN Tail(str) ELSE str
        magnitude == checked_value(body, 0, 214748364, IF negative THEN 8 ELSE 7)
    IN  IF body = <<>> \/ \E i \in 1..Len(body) : ~is_ascii_digit(body[i]) THEN None
        ELSE IF magnitude = None THEN None
        ELSE Some(IF negative THEN 0 - magnitude[1] ELSE magnitude[1])

\* a parse of SlideInterval that takes signed numbers
parse_u32_signed(str) == parse_i32(str)

\* str.parse::<u32>(): an optional '+', at least one decimal digit and nothing
\* else (a '-' is no digit); None when the value is above 4294967295
parse_u32(str) ==
    LET body == IF str # <<>> /\ Head(str) = "+" THEN Tail(str) ELSE str
        magnitude == checked_value(body, 0, 429496729, 5)
    IN  IF body = <<>> \/ \E i \in 1..Len(body) : ~is_ascii_digit(body[i]) THEN None
        ELSE magnitude

\* section.get(key)
section_get(section, key) == IF key \in DOMAIN section THEN Some(section[key]) ELSE None

\* the SoundPackConfig { ... } expression of load_pack
SoundPackConfig_parse(section) ==
    LET int(key) == LET v == section_get(section, key)
                    IN  IF is_some(v) THEN parse_i32(v[1]) ELSE None
        flag(key) == IF is_some(int(key)) THEN int(key)[1] # 0 ELSE FALSE
        mode(key) == IF is_some(int(key)) THEN SoundMode_from_int(int(key)[1]) ELSE "Volume"
        slide == LET v == section_get(section, "SlideInterval")
                 IN  IF is_some(v) THEN parse_u32(v[1]) ELSE None
    IN  [use_averages |-> flag("UseAverages"),
         cpu_mode |-> mode("CPUSoundMode"),
         ram_mode |-> mode("RAMSoundMode"),
         disk_mode |-> mode("DiskSoundMode"),
         slide_interval |-> IF is_some(slide) THEN slide[1] ELSE 20,
         frequency_fluctuation |-> flag("FrequencyFluctuation")]

UpperCase ==
    <<"A", "B", "C", "D", "E", "F", "G", "H", "I", "J", "K", "L", "M",
      "N", "O", "P", "Q", "R", "S", "T", "U", "V", "W", "X", "Y", "Z">>

LowerCase ==
    <<"a", "b", "c", "d", "e", "f", "g", "h", "i", "j", "k", "l", "m",
      "n", "o", "p", "q", "r", "s", "t", "u", "v", "w", "x", "y", "z">>

\* str::to_lowercase
to_lowercase(str) ==
    [i \in 1..Len(str) |->
        IF \E k \in 1..26 : UpperCase[k] = str[i]
        THEN LowerCase[CHOOSE k \in 1..26 : UpperCase[k] = str[i]]
        ELSE str[i]]

extensions == <<<<"o", "g", "g">>, <<"w", "a", "v">>, <<"f", "l", "a", "c">>, <<"m", "p", "3">>>>

\* format!("{}<suffix>.{}", base_name, ext)
file_name(base_name, suffix, ext) == base_name \o suffix \o <<".">> \o ext

\* the loop over the extensions looking for an _A/_B pair, capitalised first
RECURSIVE find_pair(_, _, _)
find_pair(files, base_name, exts) ==
    IF exts = <<>> THEN None
    ELSE LET ext == Head(exts)
             idle == file_name(base_name, <<"_", "A">>, ext)
             active == file_name(base_name, <<"_", "B">>, ext)
             idle_lower == file_name(to_lowercase(base_name), <<"_", "a">>, ext)
             active_lower == file_name(to_lowercase(base_name), <<"_", "b">>, ext)
         IN  IF idle \in files /\ active \in files
             THEN Some(ChannelSounds_pair(idle, active))
             ELSE IF idle_lower \in files /\ active_lower \in files
             THEN Some(ChannelSounds_pair(idle_lower, active_lower))
             ELSE find_pair(files, base_name, Tail(exts))

\* the loop over the extensions looking for a single file
RECURSIVE find_single(_, _, _)
find_single(files, base_name, exts) ==
    IF exts = <<>> THEN None
    ELSE LET ext == Head(exts)
             single == file_name(base_name, <<>>, ext)
             single_lower == file_name(to_lowercase(base_name), <<>>, ext)
         IN  IF single \in files THEN Some(ChannelSounds_single(single))
             ELSE IF single_lower \in files THEN Some(ChannelSounds_single(single_lower))
             ELSE find_single(files, base_name, Tail(exts))

resolve_sounds(files, base_name, mode) ==
    LET pair == IF mode = "Fade" THEN find_pair(files, base_name, extensions) ELSE None
        single == find_single(files, base_name, extensions)
    IN  IF mode = "Disabled" THEN ChannelSounds_none
        ELSE IF is_some(pair) THEN pair[1]
        ELSE IF is_some(single) THEN single[1]
        ELSE ChannelSounds_none

Base_CPU == <<"C", "P", "U">>

Base_RAM == <<"R", "A", "M">>

Base_disk == <<"d", "i", "s", "k">>

PackLoader_load_pack(dir) ==
    IF dir.prefs = None THEN Err("ParseError")
    ELSE IF dir.prefs[1].soundpack = None THEN Err("ParseError")
    ELSE LET config == SoundPackConfig_parse(dir.prefs[1].soundpack[1])
         IN  Ok([name |-> dir.name,
                 config |-> config,
                 cpu_sounds |-> resolve_sounds(dir.files, Base_CPU, config.cpu_mode),
                 ram_sounds |-> resolve_sounds(dir.files, Base_RAM, config.ram_mode),
                 disk_sounds |-> resolve_sounds(dir.files, Base_disk, config.disk_mode)])

\* the keys load_pack reads, and one it does not
Keys ==
    {"UseAverages", "CPUSoundMode", "RAMSoundMode", "DiskSoundMode",
     "SlideInterval", "FrequencyFluctuation", "Author"}

\* texts of values: the three modes, a number that is no mode, a negative
\* number, a signed one, a word, nothing, and a number too large for 32 bits
ValueTexts ==
    {<<"0">>, <<"1">>, <<"2">>, <<"3">>, <<"-", "1">>, <<"+", "2">>, <<"x">>, <<>>,
     <<"9", "9", "9", "9", "9", "9", "9", "9", "9", "9", "9">>}

\* [soundpack] sections with at most MaxKeys keys
Sections ==
    UNION {[ks -> ValueTexts] : ks \in {k \in SUBSET Keys : Cardinality(k) <= MaxKeys}}

\* sections that set the three sound modes and nothing else
ModeSections ==
    [{"CPUSoundMode", "RAMSoundMode", "DiskSoundMode"} -> {<<"0">>, <<"1">>, <<"2">>}]

SoundFile(base_name, suffix, ext) == file_name(base_name, suffix, extensions[ext])

FileNames ==
    {SoundFile(Base_CPU, <<>>, 4), SoundFile(to_lowercase(Base_CPU), <<>>, 1),
     SoundFile(Base_RAM, <<"_", "A">>, 1), SoundFile(Base_RAM, <<"_", "B">>, 1),
     SoundFile(Base_RAM, <<"_", "A">>, 2),
     SoundFile(to_lowercase(Base_RAM), <<"_", "a">>, 2),
     SoundFile(to_lowercase(Base_RAM), <<"_", "b">>, 2),
     SoundFile(Base_RAM, <<>>, 2), SoundFile(to_lowercase(Base_RAM), <<>>, 1),
     SoundFile(Base_disk, <<"_", "A">>, 1), SoundFile(Base_disk, <<"_", "B">>, 1),
     SoundFile(Base_disk, <<>>, 3)}

\* directory listings with at most MaxFiles sound files
Listings == {fs \in SUBSET FileNames : Cardinality(fs) <= MaxFiles}

\* every sound file of the model present
FullListing == FileNames

PackDir(files, prefs) == [name |-> "pack", files |-> files, prefs |-> prefs]

\* the directories load_pack is given: any listing with the modes set, the
\* full listing with any section, and a directory whose prefs.ini is missing
\* or has no [soundpack] section
PackDirs ==
    {PackDir(files, Some([soundpack |-> Some(section)])) :
        files \in Listings, section \in ModeSections}
    \cup {PackDir(FullListing, Some([soundpack |-> Some(section)])) : section \in Sections}
    \cup {PackDir(FullListing, None), PackDir(FullListing, Some([soundpack |-> None]))}

InitLoaderWith(dir) ==
    /\ pack_dir = dir
    /\ load_result = None

InitLoader == InitLoaderWith(PackDir({}, None))

----------------------------------------------------------------------------
(* Smoothing of a channel and of a per-core player over successive updates
   (src/audio/mixer.rs): the pack gives both the same slide interval *)

\* SlideInterval values of packs: 0 (taken for 1), 1 (no smoothing), 2 and 3
SlideIntervals == {0, 1, 2, 3}

\* the values update() and update_core() are given: the ends of the range, a
\* value inside it and one above it
Targets == {Zero, Half, Rat(3, 2)}

SmoothCoreCount == 4

InitSmoothWith(mode, slide_interval) ==
    /\ audio_channel = AudioChannel_new(mode, Some("CPU.ogg"),
                                        IF mode = "Fade" THEN Some("CPU_B.ogg") ELSE None,
                                        slide_interval, TRUE, Zero)
    /\ core_player = PerCoreCpuPlayer_new("CPU.ogg", SmoothCoreCount, slide_interval, TRUE)
    /\ held = [slide_interval |-> slide_interval, updates |-> 0, given |-> Zero, target |-> Zero, k |-> 0,
               start |-> Zero, core_start |-> [i \in 1..SmoothCoreCount |-> Zero]]

InitSmooth == InitSmoothWith("Volume", 1)

\* for i in 0..player.core_count() { player.update_core(i, value) }
RECURSIVE update_every_core(_, _, _)
update_every_core(pl, i, target_value) ==
    IF i >= core_count(pl) THEN pl
    ELSE update_every_core(PerCoreCpuPlayer_update_core(pl, i, target_value), i + 1, target_value)

----------------------------------------------------------------------------
(* SystemMonitor (src/monitor/mod.rs, cpu.rs, memory.rs). An f64 that is no
   number or infinite is a pair with denominator 0: every comparison of NaN
   by RLt is false, and the infinities compare below and above every
   rational, as the f64 comparisons do. *)

NaN == <<0, 0>>

INFINITY == <<1, 0>>

NEG_INFINITY == <<-1, 0>>

is_finite(x) == x[2] # 0

\* CpuMonitor::per_core_usage: cpu_usage() is a percentage
CpuMonitor_per_core_usage(sys) ==
    [i \in DOMAIN sys.cpus |-> MetricValue_new(RDiv(Rat(sys.cpus[i], 1), Rat(100, 1)))]

RECURSIVE sum(_)
sum(values) == IF values = <<>> THEN 0 ELSE Head(values) + sum(Tail(values))

CpuMonitor_average_usage(sys) ==
    IF sys.cpus = <<>> THEN MetricValue_new(Zero)
    ELSE MetricValue_new(RDiv(RDiv(Rat(sum(sys.cpus), 1), Rat(Len(sys.cpus), 1)), Rat(100, 1)))

MemoryMonitor_usage(sys) ==
    IF sys.total_memory = 0 THEN MetricValue_new(Zero)
    ELSE MetricValue_new(Rat(sys.used_memory, sys.total_memory))

\* SystemMonitor::refresh once the three monitors have refreshed: the snapshot
SystemMonitor_refresh(sys, d) ==
    [cpu_cores |-> CpuMonitor_per_core_usage(sys),
     cpu_average |-> CpuMonitor_average_usage(sys),
     memory |-> MemoryMonitor_usage(sys),
     disk |-> DiskMonitor_activity(d)]

Readings(cpus, used_memory, total_memory) ==
    [cpus |-> cpus, used_memory |-> used_memory, total_memory |-> total_memory]

\* what sysinfo can hold: no cpu, busy cores, a usage above 100 and
\* one below 0; no memory, half of it used, more used than there is
CpuReadings == {<<>>, <<50, 150>>, <<100, 100, 100, 100>>, <<-5, 25>>}

MemoryReadings == {<<0, 0>>, <<1, 2>>, <<3, 2>>}

\* what the disk monitor of a SystemMonitor reads
MonitorDiskStats == {None, SingleStats(1, 0)}

\* the values given to MetricValue::new
MetricInputs == {Rat(-1, 2), Zero, Rat(1, 4), One, Rat(3, 2), NaN, INFINITY, NEG_INFINITY}

\* SystemMonitor::new(), and the Default of MetricValue
InitMonitor ==
    /\ system = Readings(<<>>, 0, 0)
    /\ snapshot = None
    /\ metric = [input |-> Zero, value |-> Zero]

----------------------------------------------------------------------------
(* The engine as a state machine: one action per AudioEngine method *)

\* the record of a call: `again` tells that a load_pack or a stop repeats the
\* call made just before it, which returned Ok
Call(op, arg, result) ==
    [op |-> op, arg |-> arg, result |-> result,
     again |-> (/\ op \in {"load_pack", "stop"}
                /\ last.op = op
                /\ last.arg = arg
                /\ last.result = "Ok")]

\* AudioEngine::new(), and a shifter that is left alone
InitEngine ==
    /\ current_pack = None
    /\ is_playing = FALSE
    /\ cpu_enabled = TRUE
    /\ ram_enabled = TRUE
    /\ disk_enabled = TRUE
    /\ use_averages = TRUE
    /\ mixer = AudioMixer_new
    /\ last = [op |-> "new", arg |-> <<>>, result |-> "Ok", again |-> FALSE]
    /\ ticks = 0

InitElement ==
    /\ element = GranularPitch_default
    /\ flow = [op |-> "new", arg |-> <<>>, result |-> "Ok", buf |-> <<>>]

InitDiskWith(content) ==
    /\ clock = 0
    /\ disk_monitor = DiskMonitor_new(content, 0)
    /\ disk_call = [op |-> "new", content |-> content, elapsed |-> 0]

InitDisk == InitDiskWith(None)

InitApp ==
    /\ app = App_new
    /\ main_context = MainContext_new
    /\ app_call = [op |-> "new"]

\* no update_tick in progress
tick_idle ==
    [pc |-> "idle", before |-> None, refreshes |-> 0, updates |-> 0, refused |-> None]

\* main() holds the App and no callback runs
InitCallbacks ==
    /\ holder = "held"
    /\ tick = tick_idle

InitPitch(sample_rate) ==
    /\ shifter = GranularPitchShifter_new(sample_rate, GrainMs)
    /\ output = None
    /\ inputs = <<>>
    /\ grains = grains_new(shifter)

Init == InitEngine /\ InitPitch(80) /\ InitElement /\ InitDisk /\ InitApp /\ InitLoader /\ InitSmooth /\ InitMonitor /\ InitThreads /\ InitCallbacks

\* load_pack that puts the three metrics back to enabled, as new() has them
load_pack_enabling(pack, num_cpu_cores, fail) ==
    LET at == failure_point(pack, fail)
    IN  /\ is_playing' = FALSE
        /\ use_averages' = pack.config.use_averages
        /\ mixer' = AudioEngine_load_pack(mixer, pack, num_cpu_cores, fail)
        /\ current_pack' = IF at = "none" THEN Some(pack) ELSE current_pack
        /\ last' = Call("load_pack", <<pack.name, num_cpu_cores>>,
                        IF at = "none" THEN "Ok" ELSE "GstreamerError")
        /\ ticks' = 0
        /\ cpu_enabled' = TRUE /\ ram_enabled' = TRUE /\ disk_enabled' = TRUE
        /\ EngineFrame

load_pack(pack, num_cpu_cores, fail) ==
    LET at == failure_point(pack, fail)
    IN  /\ is_playing' = FALSE
        /\ use_averages' = pack.config.use_averages
        /\ mixer' = AudioEngine_load_pack(mixer, pack, num_cpu_cores, fail)
        /\ current_pack' = IF at = "none" THEN Some(pack) ELSE current_pack
        /\ last' = Call("load_pack", <<pack.name, num_cpu_cores>>,
                        IF at = "none" THEN "Ok" ELSE "GstreamerError")
        /\ ticks' = 0
        /\ UNCHANGED <<cpu_enabled, ram_enabled, disk_enabled>>
        /\ EngineFrame

\* play() without the check for a loaded pack
play_unchecked ==
    /\ mixer' = AudioMixer_play_all(mixer)
    /\ is_playing' = TRUE
    /\ last' = Call("play", <<>>, "Ok")
    /\ ticks' = 0
    /\ UNCHANGED <<current_pack, cpu_enabled, ram_enabled, disk_enabled, use_averages>>
    /\ EngineFrame

play ==
    /\ IF ~is_some(current_pack)
       THEN /\ last' = Call("play", <<>>, "NoPackLoaded")
            /\ UNCHANGED <<mixer, is_playing>>
       ELSE /\ mixer' = AudioMixer_play_all(mixer)
            /\ is_playing' = TRUE
            /\ last' = Call("play", <<>>, "Ok")
    /\ ticks' = 0
    /\ UNCHANGED <<current_pack, cpu_enabled, ram_enabled, disk_enabled, use_averages>>
    /\ EngineFrame

stop ==
    /\ mixer' = AudioEngine_stop(mixer)
    /\ is_playing' = FALSE
    /\ last' = Call("stop", <<>>, "Ok")
    /\ ticks' = 0
    /\ UNCHANGED <<current_pack, cpu_enabled, ram_enabled, disk_enabled, use_averages>>
    /\ EngineFrame

update(metrics) ==
    /\ mixer' = AudioEngine_update(mixer, metrics, cpu_enabled, ram_enabled, disk_enabled)
    /\ Bounded(mixer')
    /\ ticks' = IF last.op = "update" /\ last.arg = <<metrics>>
                THEN (IF ticks < MaxTicks THEN ticks + 1 ELSE ticks) ELSE 1
    /\ last' = Call("update", <<metrics>>, "Ok")
    /\ UNCHANGED <<current_pack, is_playing, cpu_enabled, ram_enabled, disk_enabled, use_averages>>
    /\ EngineFrame

set_master_volume(volume) ==
    /\ mixer' = AudioMixer_set_master_volume(mixer, volume)
    /\ last' = Call("set_master_volume", <<volume>>, "Ok")
    /\ ticks' = 0
    /\ UNCHANGED <<current_pack, is_playing, cpu_enabled, ram_enabled, disk_enabled, use_averages>>
    /\ EngineFrame

set_cpu_enabled(enabled) ==
    /\ cpu_enabled' = enabled
    /\ last' = Call("set_cpu_enabled", <<enabled>>, "Ok")
    /\ ticks' = 0
    /\ UNCHANGED <<current_pack, is_playing, ram_enabled, disk_enabled, use_averages, mixer>>
    /\ EngineFrame

set_ram_enabled(enabled) ==
    /\ ram_enabled' = enabled
    /\ last' = Call("set_ram_enabled", <<enabled>>, "Ok")
    /\ ticks' = 0
    /\ UNCHANGED <<current_pack, is_playing, cpu_enabled, disk_enabled, use_averages, mixer>>
    /\ EngineFrame

set_disk_enabled(enabled) ==
    /\ disk_enabled' = enabled
    /\ last' = Call("set_disk_enabled", <<enabled>>, "Ok")
    /\ ticks' = 0
    /\ UNCHANGED <<current_pack, is_playing, cpu_enabled, ram_enabled, use_averages, mixer>>
    /\ EngineFrame

\* the load_pack calls that differ in effect: a failure only where the pack has
\* the sounds to construct, and one core count for the averaged packs, which
\* build no per-core player and so never read num_cpu_cores
LoadCalls ==
    {c \in Packs \X CoreCounts \X Failures :
        /\ failure_point(c[1], c[3]) = c[3]
        /\ (c[1].config.use_averages \/ ~has_sounds(c[1].cpu_sounds)) => c[2] = 4}

Next ==
    \/ \E c \in LoadCalls : load_pack(c[1], c[2], c[3])
    \/ play
    \/ stop
    \/ \E metrics \in Metrics : update(metrics)
    \/ \E volume \in Volumes : set_master_volume(volume)
    \/ \E enabled \in BOOLEAN : set_cpu_enabled(enabled)
    \/ \E enabled \in BOOLEAN : set_ram_enabled(enabled)
    \/ \E enabled \in BOOLEAN : set_disk_enabled(enabled)

Spec == Init /\ [][Next]_vars

----------------------------------------------------------------------------
(* The shifter as a state machine: one action per GranularPitchShifter method *)

PitchInit == InitEngine /\ (\E sample_rate \in SampleRates : InitPitch(sample_rate)) /\ InitElement /\ InitDisk /\ InitApp /\ InitLoader /\ InitSmooth /\ InitMonitor /\ InitThreads /\ InitCallbacks

set_pitch_ratio(ratio) ==
    /\ shifter' = GranularPitchShifter_set_pitch_ratio(shifter, ratio)
    /\ UNCHANGED <<output, inputs, grains>>
    /\ PitchFrame

process_sample(input) ==
    /\ Len(inputs) < MaxSamples
    /\ LET r == GranularPitchShifter_process_sample(shifter, input)
       IN  /\ shifter' = r.shifter
           /\ output' = Some(r.output)
           /\ grains' = grains_after(grains, shifter, r.shifter)
    /\ inputs' = Append(inputs, input)
    /\ PitchFrame

reset ==
    /\ shifter' = GranularPitchShifter_reset(shifter)
    /\ output' = None
    /\ inputs' = <<>>
    /\ grains' = grains_new(shifter')
    /\ PitchFrame

PitchNext ==
    \/ \E ratio \in Ratios : set_pitch_ratio(ratio)
    \/ \E input \in Samples : process_sample(input)
    \/ reset

PitchSpec == PitchInit /\ [][PitchNext]_vars

----------------------------------------------------------------------------
(* The element as a state machine: the property setter and the BaseTransform
   callbacks; the shifter beside it takes set_pitch_ratio and reset *)

ElementInit == InitEngine /\ InitPitch(80) /\ InitElement /\ InitDisk /\ InitApp /\ InitLoader /\ InitSmooth /\ InitMonitor /\ InitThreads /\ InitCallbacks

element_set_property(pitch) ==
    /\ element' = GranularPitch_set_property(element, pitch)
    /\ flow' = [op |-> "set_property", arg |-> <<pitch>>, result |-> "Ok", buf |-> <<>>]
    /\ ElementFrame

\* AudioInfo::from_caps either parses the caps or set_caps returns the error
element_set_caps(sample_rate, caps_ok) ==
    /\ element' = IF caps_ok THEN GranularPitch_set_caps(element, sample_rate) ELSE element
    /\ flow' = [op |-> "set_caps", arg |-> <<sample_rate>>,
                result |-> IF caps_ok THEN "Ok" ELSE "LoggableError", buf |-> <<>>]
    /\ ElementFrame

element_stop ==
    /\ element' = GranularPitch_stop(element)
    /\ flow' = [op |-> "stop", arg |-> <<>>, result |-> "Ok", buf |-> <<>>]
    /\ ElementFrame

transform_ip(buf, map_ok) ==
    /\ is_some(element.state) => element.state[1].samples_written + Len(buf) <= MaxSamples
    /\ LET r == GranularPitch_transform_ip(element, buf, map_ok)
       IN  /\ element' = r.element
           /\ flow' = [op |-> "transform_ip", arg |-> <<buf>>, result |-> r.result, buf |-> r.buf]
    /\ ElementFrame

ElementNext ==
    \/ \E pitch \in ElementPitches : element_set_property(pitch)
    \/ \E sample_rate \in ElementRates, caps_ok \in BOOLEAN : element_set_caps(sample_rate, caps_ok)
    \/ element_stop
    \/ \E buf \in Buffers, map_ok \in BOOLEAN : transform_ip(buf, map_ok)
    \/ \E ratio \in ElementPitches : set_pitch_ratio(ratio)
    \/ reset

ElementSpec == ElementInit /\ [][ElementNext]_vars

----------------------------------------------------------------------------
(* The element under two threads: one action per lock acquisition and per
   critical section of set_property, set_caps, stop and transform_ip *)

ThreadInit == InitEngine /\ InitPitch(80) /\ InitElement /\ InitDisk /\ InitApp /\ InitLoader /\ InitSmooth /\ InitMonitor /\ InitThreads /\ InitCallbacks

in_transform_ip == streaming.pc \in {"ip_check", "ip_update_pitch", "ip_map", "ip_sample"}

\* set_property is called and takes the pitch_ratio mutex
set_property_lock_pitch_ratio(pitch) ==
    /\ application.pc = "idle"
    /\ mutexes.pitch_ratio = "free"
    /\ mutexes' = Mutex_lock(mutexes, "pitch_ratio", "application")
    /\ application' = [pc |-> "store_pitch", pitch |-> pitch]
    /\ pitch_writes' = [pitch_writes EXCEPT !.candidates = IF in_transform_ip THEN @ \cup {pitch} ELSE @]
    /\ UNCHANGED <<element, flow, streaming>>
    /\ ThreadFrame

\* the store with the guard of pitch_ratio kept while the state mutex is taken
set_property_store_pitch_holding ==
    /\ application.pc = "store_pitch"
    /\ element' = [element EXCEPT !.pitch_ratio = application.pitch]
    /\ application' = [application EXCEPT !.pc = "lock_state"]
    /\ UNCHANGED <<mutexes, flow, streaming, pitch_writes>>
    /\ ThreadFrame

\* *self.pitch_ratio.lock().unwrap() = pitch
set_property_store_pitch ==
    /\ application.pc = "store_pitch"
    /\ element' = [element EXCEPT !.pitch_ratio = application.pitch]
    /\ mutexes' = Mutex_unlock(mutexes, "pitch_ratio")
    /\ application' = [application EXCEPT !.pc = "lock_state"]
    /\ UNCHANGED <<flow, streaming, pitch_writes>>
    /\ ThreadFrame

set_property_lock_state ==
    /\ application.pc = "lock_state"
    /\ mutexes.state = "free"
    /\ mutexes' = Mutex_lock(mutexes, "state", "application")
    /\ application' = [application EXCEPT !.pc = "set_shifter"]
    /\ UNCHANGED <<element, flow, streaming, pitch_writes>>
    /\ ThreadFrame

\* if let Some(shifter) = state { shifter.set_pitch_ratio(pitch) }, and the return
set_property_set_shifter ==
    /\ application.pc = "set_shifter"
    /\ element' = [element EXCEPT !.state = IF is_some(@)
                                            THEN Some(GranularPitchShifter_set_pitch_ratio(@[1], application.pitch))
                                            ELSE None]
    /\ mutexes' = Mutex_unlock(mutexes, "state")
    /\ application' = [application EXCEPT !.pc = "idle"]
    /\ pitch_writes' = [pitch_writes EXCEPT !.returned = Some(application.pitch)]
    /\ UNCHANGED <<flow, streaming>>
    /\ ThreadFrame

\* set_caps is called: the caps are parsed and the new shifter is made
set_caps_new_shifter(sample_rate, caps_ok) ==
    /\ streaming.pc = "idle"
    /\ IF caps_ok
       THEN /\ streaming' = [streaming_idle EXCEPT !.pc = "caps_lock_pitch",
                                                   !.shifter = Some(GranularPitchShifter_new(sample_rate, GrainMs))]
            /\ UNCHANGED flow
       ELSE /\ flow' = [op |-> "set_caps", arg |-> <<sample_rate>>, result |-> "LoggableError", buf |-> <<>>]
            /\ UNCHANGED streaming
    /\ UNCHANGED <<element, mutexes, application, pitch_writes>>
    /\ ThreadFrame

set_caps_lock_pitch_ratio ==
    /\ streaming.pc = "caps_lock_pitch"
    /\ mutexes.pitch_ratio = "free"
    /\ mutexes' = Mutex_lock(mutexes, "pitch_ratio", "streaming")
    /\ streaming' = [streaming EXCEPT !.pc = "caps_read_pitch"]
    /\ UNCHANGED <<element, flow, application, pitch_writes>>
    /\ ThreadFrame

\* shifter.set_pitch_ratio(*self.pitch_ratio.lock().unwrap())
set_caps_read_pitch ==
    /\ streaming.pc = "caps_read_pitch"
    /\ streaming' = [streaming EXCEPT !.pc = "caps_lock_state",
                                      !.shifter = Some(GranularPitchShifter_set_pitch_ratio(@[1], element.pitch_ratio))]
    /\ mutexes' = Mutex_unlock(mutexes, "pitch_ratio")
    /\ UNCHANGED <<element, flow, application, pitch_writes>>
    /\ ThreadFrame

set_caps_lock_state ==
    /\ streaming.pc = "caps_lock_state"
    /\ mutexes.state = "free"
    /\ mutexes' = Mutex_lock(mutexes, "state", "streaming")
    /\ streaming' = [streaming EXCEPT !.pc = "caps_store"]
    /\ UNCHANGED <<element, flow, application, pitch_writes>>
    /\ ThreadFrame

\* *self.state.lock().unwrap() = Some(shifter), and the return
set_caps_store ==
    /\ streaming.pc = "caps_store"
    /\ element' = [element EXCEPT !.state = streaming.shifter]
    /\ mutexes' = Mutex_unlock(mutexes, "state")
    /\ streaming' = streaming_idle
    /\ flow' = [op |-> "set_caps", arg |-> <<>>, result |-> "Ok", buf |-> <<>>]
    /\ pitch_writes' = [pitch_writes EXCEPT !.stale =
                            /\ application.pc = "idle"
                            /\ streaming.shifter[1].pitch_ratio # clamp(element.pitch_ratio, Rat(1, 4), Rat(4, 1))]
    /\ UNCHANGED application
    /\ ThreadFrame

\* stop is called and takes the state mutex
stop_lock_state ==
    /\ streaming.pc = "idle"
    /\ mutexes.state = "free"
    /\ mutexes' = Mutex_lock(mutexes, "state", "streaming")
    /\ streaming' = [streaming_idle EXCEPT !.pc = "stop_clear"]
    /\ UNCHANGED <<element, flow, application, pitch_writes>>
    /\ ThreadFrame

\* *self.state.lock().unwrap() = None, and the return
stop_clear ==
    /\ streaming.pc = "stop_clear"
    /\ element' = GranularPitch_stop(element)
    /\ mutexes' = Mutex_unlock(mutexes, "state")
    /\ streaming' = streaming_idle
    /\ flow' = [op |-> "stop", arg |-> <<>>, result |-> "Ok", buf |-> <<>>]
    /\ pitch_writes' = [pitch_writes EXCEPT !.stale = FALSE]
    /\ UNCHANGED application
    /\ ThreadFrame

\* transform_ip is called with a buffer and takes the state mutex, which it
\* holds until it returns
transform_ip_lock_state(buf, map_ok) ==
    /\ streaming.pc = "idle"
    /\ mutexes.state = "free"
    /\ is_some(element.state) => element.state[1].samples_written + Len(buf) <= MaxSamples
    /\ mutexes' = Mutex_lock(mutexes, "state", "streaming")
    /\ streaming' = [pc |-> "ip_check", shifter |-> None, buf |-> buf, i |-> 1, map_ok |-> map_ok]
    /\ pitch_writes' = [pitch_writes EXCEPT
                            !.covered = is_some(pitch_writes.returned),
                            !.candidates = {pitch_writes.returned[k] : k \in DOMAIN pitch_writes.returned}
                                               \cup (IF application.pc = "idle" THEN {} ELSE {application.pitch}),
                            !.used = <<>>]
    /\ UNCHANGED <<element, flow, application>>
    /\ ThreadFrame

\* state_guard.as_mut().ok_or_else(..)? with no shifter
transform_ip_not_negotiated ==
    /\ streaming.pc = "ip_check"
    /\ ~is_some(element.state)
    /\ mutexes' = Mutex_unlock(mutexes, "state")
    /\ flow' = [op |-> "transform_ip", arg |-> <<streaming.buf>>, result |-> "NotNegotiated", buf |-> streaming.buf]
    /\ streaming' = streaming_idle
    /\ UNCHANGED <<element, application, pitch_writes>>
    /\ ThreadFrame

\* with a shifter: the pitch_ratio mutex is taken while the state mutex is held
transform_ip_lock_pitch_ratio ==
    /\ streaming.pc = "ip_check"
    /\ is_some(element.state)
    /\ mutexes.pitch_ratio = "free"
    /\ mutexes' = Mutex_lock(mutexes, "pitch_ratio", "streaming")
    /\ streaming' = [streaming EXCEPT !.pc = "ip_update_pitch"]
    /\ UNCHANGED <<element, flow, application, pitch_writes>>
    /\ ThreadFrame

transform_ip_update_pitch ==
    /\ streaming.pc = "ip_update_pitch"
    /\ element' = [element EXCEPT !.state = Some(update_pitch_ratio(@[1], element.pitch_ratio))]
    /\ mutexes' = Mutex_unlock(mutexes, "pitch_ratio")
    /\ streaming' = [streaming EXCEPT !.pc = "ip_map"]
    /\ UNCHANGED <<flow, application, pitch_writes>>
    /\ ThreadFrame

\* buf.map_writable(): the error return, or on to the loop
transform_ip_map ==
    /\ streaming.pc = "ip_map"
    /\ IF streaming.map_ok
       THEN /\ streaming' = [streaming EXCEPT !.pc = "ip_sample"]
            /\ UNCHANGED <<mutexes, flow>>
       ELSE /\ mutexes' = Mutex_unlock(mutexes, "state")
            /\ flow' = [op |-> "transform_ip", arg |-> <<streaming.buf>>, result |-> "Error", buf |-> streaming.buf]
            /\ streaming' = streaming_idle
    /\ UNCHANGED <<element, application, pitch_writes>>
    /\ ThreadFrame

\* one turn of the loop: *sample = shifter.process_sample(*sample)
transform_ip_process_sample ==
    /\ streaming.pc = "ip_sample"
    /\ streaming.i <= Len(streaming.buf)
    /\ LET r == GranularPitchShifter_process_sample(element.state[1], streaming.buf[streaming.i])
       IN  /\ element' = [element EXCEPT !.state = Some(r.shifter)]
           /\ streaming' = [streaming EXCEPT !.buf[streaming.i] = r.output, !.i = @ + 1]
    /\ pitch_writes' = [pitch_writes EXCEPT !.used = Append(@, element.state[1].pitch_ratio)]
    /\ UNCHANGED <<mutexes, flow, application>>
    /\ ThreadFrame

\* Ok(FlowSuccess::Ok): the guard of the state mutex is dropped
transform_ip_return ==
    /\ streaming.pc = "ip_sample"
    /\ streaming.i > Len(streaming.buf)
    /\ mutexes' = Mutex_unlock(mutexes, "state")
    /\ flow' = [op |-> "transform_ip", arg |-> <<>>, result |-> "Ok", buf |-> streaming.buf]
    /\ streaming' = streaming_idle
    /\ UNCHANGED <<element, application, pitch_writes>>
    /\ ThreadFrame

ThreadNext ==
    \/ \E pitch \in ThreadPitches : set_property_lock_pitch_ratio(pitch)
    \/ set_property_store_pitch
    \/ set_property_lock_state
    \/ set_property_set_shifter
    \/ \E sample_rate \in ElementRates, caps_ok \in BOOLEAN : set_caps_new_shifter(sample_rate, caps_ok)
    \/ set_caps_lock_pitch_ratio
    \/ set_caps_read_pitch
    \/ set_caps_lock_state
    \/ set_caps_store
    \/ stop_lock_state
    \/ stop_clear
    \/ \E buf \in ThreadBuffers, map_ok \in BOOLEAN : transform_ip_lock_state(buf, map_ok)
    \/ transform_ip_not_negotiated
    \/ transform_ip_lock_pitch_ratio
    \/ transform_ip_update_pitch
    \/ transform_ip_map
    \/ transform_ip_process_sample
    \/ transform_ip_return

ThreadSpec == ThreadInit /\ [][ThreadNext]_vars

----------------------------------------------------------------------------
(* The disk monitor as a state machine: time passes and refresh() reads
   whatever /proc/diskstats holds then *)

DiskInit == InitEngine /\ InitPitch(80) /\ InitElement /\ (\E content \in DiskStats : InitDiskWith(content)) /\ InitApp /\ InitLoader /\ InitSmooth /\ InitMonitor /\ InitThreads /\ InitCallbacks

\* the decay multiplies the denominator of max_activity by up to 1000
DiskBounded(d, content, now) ==
    LET totals == read_disk_stats(content)
        level == RDiv(Rat(saturating_sub(totals[1], d.last_read_sectors)
                          + saturating_sub(totals[2], d.last_write_sectors), 1),
                      Rat(now - d.last_time, 1000))
    IN  (now > d.last_time /\ ~RLt(d.max_activity, level)) => d.max_activity[2] <= MaxDiskDen

refresh(content, elapsed) ==
    /\ clock + elapsed <= MaxClock
    /\ DiskBounded(disk_monitor, content, clock + elapsed)
    /\ clock' = clock + elapsed
    /\ disk_monitor' = DiskMonitor_refresh(disk_monitor, content, clock + elapsed)
    /\ disk_call' = [op |-> "refresh", content |-> content, elapsed |-> elapsed]
    /\ DiskFrame

DiskNext == \E content \in DiskStats, elapsed \in Elapsed : refresh(content, elapsed)

DiskSpec == DiskInit /\ [][DiskNext]_vars

----------------------------------------------------------------------------
(* The application as a state machine: main() either shows the startup
   dialog and runs the GTK main loop or starts headless and runs a glib main
   loop; the handlers run while the loop runs, shutdown() after it *)

\* the state main() reaches before a handler runs: with the dialog shown and
\* gtk::main() running, or headless before start_headless
AppInit ==
    /\ InitEngine /\ InitPitch(80) /\ InitElement /\ InitDisk /\ InitLoader /\ InitSmooth /\ InitMonitor /\ InitThreads /\ InitCallbacks
    /\ app_call = [op |-> "new"]
    /\ \E gui \in BOOLEAN :
          IF gui
          THEN /\ app = show_dialog(App_new)
               /\ main_context = [MainContext_new EXCEPT !.running = TRUE]
          ELSE /\ app = App_new
               /\ main_context = MainContext_new

\* start_monitoring / start_monitoring_headless: load the pack, and unless
\* that fails make the tray (not headless), set is_monitoring, play and start
\* the update loop
start_monitoring(a, pack_index, fail, headless) ==
    LET pack == a.available_packs[pack_index + 1]
        at == failure_point(pack, fail)
        loaded == AudioEngine_load_pack(mixer, pack, AppCoreCount, fail)
        a1 == [a EXCEPT !.tray = (@ \/ ~headless), !.is_monitoring = TRUE]
        r == start_update_loop(a1, main_context)
    IN  /\ use_averages' = pack.config.use_averages
        /\ UNCHANGED <<cpu_enabled, ram_enabled, disk_enabled>>
        /\ IF at # "none"
           THEN /\ mixer' = loaded
                /\ is_playing' = FALSE
                /\ UNCHANGED current_pack
                /\ app' = a
                /\ main_context' = [main_context EXCEPT !.running = TRUE]
           ELSE /\ mixer' = AudioMixer_play_all(loaded)
                /\ is_playing' = TRUE
                /\ current_pack' = Some(pack)
                /\ app' = r.app
                /\ main_context' = [r.main_context EXCEPT !.running = TRUE]

\* the load_pack outcomes of a pack: no failure, or one at a channel it has
AppFailures(pack_index) ==
    {fail \in Failures : failure_point(app.available_packs[pack_index + 1], fail) = fail}

start_headless(pack_index, fail) ==
    /\ app_call.op = "new"
    /\ ~main_context.running
    /\ ~is_some(app.startup_dialog)
    /\ start_monitoring([app EXCEPT !.selected_pack_index = Some(pack_index)],
                        pack_index, fail, TRUE)
    /\ app_call' = [op |-> "start_headless"]
    /\ AppFrame

\* the user selects a row of the dialog's list, or none: the row_selected
\* handler, whose callback stores the index it is given
on_selection_changed(index) ==
    /\ main_context.running
    /\ dialog_visible(app)
    /\ is_some(index) => index[1] < Len(app.startup_dialog[1].rows)
    /\ index # app.startup_dialog[1].selected_row
    /\ LET r == row_selected(app.startup_dialog[1], index)
       IN  app' = [app EXCEPT !.selected_pack_index = r.index,
                              !.startup_dialog = Some(r.dialog)]
    /\ app_call' = [op |-> "ui"]
    /\ UNCHANGED <<engineVars, main_context>>
    /\ AppFrame

\* the dialog's start button, which can be pressed while it is sensitive
on_start(fail) ==
    /\ main_context.running
    /\ dialog_visible(app)
    /\ app.startup_dialog[1].start_sensitive
    /\ is_some(app.selected_pack_index)
    /\ app.selected_pack_index[1] < Len(app.available_packs)
    /\ main_context.next_id <= MaxSources
    /\ fail \in AppFailures(app.selected_pack_index[1])
    /\ start_monitoring(hide_dialog(app), app.selected_pack_index[1], fail, FALSE)
    /\ app_call' = [op |-> "start"]
    /\ AppFrame

on_refresh_rate_changed(rate) ==
    /\ main_context.running
    /\ app.tray
    /\ main_context.next_id <= MaxSources
    /\ LET r == App_set_refresh_rate(app, main_context, rate)
       IN  app' = r.app /\ main_context' = r.main_context
    /\ app_call' = [op |-> "set_refresh_rate"]
    /\ UNCHANGED engineVars
    /\ AppFrame

on_volume_changed(volume) ==
    /\ main_context.running
    /\ app.tray
    /\ mixer' = AudioMixer_set_master_volume(mixer, volume)
    /\ app_call' = [op |-> "ui"]
    /\ UNCHANGED <<current_pack, is_playing, cpu_enabled, ram_enabled, disk_enabled, use_averages>>
    /\ UNCHANGED <<app, main_context>>
    /\ AppFrame

on_cpu_toggled(enabled) ==
    /\ main_context.running
    /\ app.tray
    /\ cpu_enabled' = enabled
    /\ app_call' = [op |-> "ui"]
    /\ UNCHANGED <<current_pack, is_playing, ram_enabled, disk_enabled, use_averages, mixer>>
    /\ UNCHANGED <<app, main_context>>
    /\ AppFrame

on_ram_toggled(enabled) ==
    /\ main_context.running
    /\ app.tray
    /\ ram_enabled' = enabled
    /\ app_call' = [op |-> "ui"]
    /\ UNCHANGED <<current_pack, is_playing, cpu_enabled, disk_enabled, use_averages, mixer>>
    /\ UNCHANGED <<app, main_context>>
    /\ AppFrame

on_disk_toggled(enabled) ==
    /\ main_context.running
    /\ app.tray
    /\ disk_enabled' = enabled
    /\ app_call' = [op |-> "ui"]
    /\ UNCHANGED <<current_pack, is_playing, cpu_enabled, ram_enabled, use_averages, mixer>>
    /\ UNCHANGED <<app, main_context>>
    /\ AppFrame

\* show_pack_selector: the packs are scanned again and the dialog is shown
on_show_window(scanned) ==
    /\ main_context.running
    /\ app.tray
    /\ app' = show_pack_selector(app, scanned)
    /\ app_call' = [op |-> "ui"]
    /\ UNCHANGED <<engineVars, main_context>>
    /\ AppFrame

\* a timeout source fires: update_tick samples the metrics and updates the engine
timeout(source_id, metrics) ==
    /\ main_context.running
    /\ \E src \in main_context.sources : src.id = source_id
    /\ mixer' = AudioEngine_update(mixer, metrics, cpu_enabled, ram_enabled, disk_enabled)
    /\ Bounded(mixer')
    /\ app_call' = [op |-> "update_tick"]
    /\ UNCHANGED <<current_pack, is_playing, cpu_enabled, ram_enabled, disk_enabled, use_averages>>
    /\ UNCHANGED <<app, main_context>>
    /\ AppFrame

\* gtk::main_quit() or the Ctrl+C handler: the main loop returns
quit ==
    /\ main_context.running
    /\ main_context' = [main_context EXCEPT !.running = FALSE]
    /\ app_call' = [op |-> "quit"]
    /\ UNCHANGED <<engineVars, app>>
    /\ AppFrame

\* shutdown(), which main() calls after the main loop and Drop calls again
shutdown ==
    /\ app_call.op \in {"quit", "shutdown"}
    /\ LET r == App_shutdown(app, main_context)
       IN  app' = r.app /\ main_context' = r.main_context
    /\ mixer' = AudioEngine_stop(mixer)
    /\ is_playing' = FALSE
    /\ app_call' = [op |-> "shutdown"]
    /\ UNCHANGED <<current_pack, cpu_enabled, ram_enabled, disk_enabled, use_averages>>
    /\ AppFrame

AppNext ==
    \/ \E pack_index \in 0..(Len(available_packs) - 1) :
          \E fail \in AppFailures(pack_index) : start_headless(pack_index, fail)
    \/ \E index \in {None} \cup {Some(i) : i \in 0..(MaxRows - 1)} :
          on_selection_changed(index)
    \/ \E fail \in Failures : on_start(fail)
    \/ \E rate \in RefreshRates : on_refresh_rate_changed(rate)
    \/ \E volume \in AppVolumes : on_volume_changed(volume)
    \/ \E enabled \in BOOLEAN : on_cpu_toggled(enabled)
    \/ \E enabled \in BOOLEAN : on_ram_toggled(enabled)
    \/ \E enabled \in BOOLEAN : on_disk_toggled(enabled)
    \/ \E scanned \in ScannedPacks : on_show_window(scanned)
    \/ \E src \in main_context.sources, metrics \in AppMetrics : timeout(src.id, metrics)
    \/ quit
    \/ shutdown

AppSpec == AppInit /\ [][AppNext]_vars

----------------------------------------------------------------------------
(* The pack loader as a state machine: load_pack is called on a directory *)

LoaderInit == InitEngine /\ InitPitch(80) /\ InitElement /\ InitDisk /\ InitApp /\ (\E dir \in PackDirs : InitLoaderWith(dir)) /\ InitSmooth /\ InitMonitor /\ InitThreads /\ InitCallbacks

PackLoader_load ==
    /\ load_result = None
    /\ load_result' = Some(PackLoader_load_pack(pack_dir))
    /\ UNCHANGED pack_dir
    /\ LoaderFrame

LoaderNext == PackLoader_load

LoaderSpec == LoaderInit /\ [][LoaderNext]_vars

----------------------------------------------------------------------------
(* Smoothing as a state machine: each tick gives the channel and every core
   of the player the same value *)

SmoothInit == InitEngine /\ InitPitch(80) /\ InitElement /\ InitDisk /\ InitApp /\ InitLoader /\ (\E mode \in {"Disabled", "Volume", "Fade"}, slide_interval \in SlideIntervals : InitSmoothWith(mode, slide_interval)) /\ InitMonitor /\ InitThreads /\ InitCallbacks

smooth_tick(target_value) ==
    LET target == clamp(target_value, Zero, One)
    IN  /\ held.updates < MaxUpdates
        /\ audio_channel' = AudioChannel_update(audio_channel, target_value)
        /\ core_player' = update_every_core(core_player, 0, target_value)
        /\ held' = IF held.k > 0 /\ held.target = target
                   THEN [held EXCEPT !.updates = @ + 1, !.given = target_value, !.k = @ + 1]
                   ELSE [held EXCEPT !.updates = @ + 1, !.given = target_value, !.target = target, !.k = 1,
                                     !.start = audio_channel.current_value,
                                     !.core_start = core_player.current_values]
        /\ SmoothFrame

SmoothNext == \E target_value \in Targets : smooth_tick(target_value)

SmoothSpec == SmoothInit /\ [][SmoothNext]_vars

----------------------------------------------------------------------------
(* The sampler as a state machine: MetricValue::new is given a value, and
   SystemMonitor::refresh samples what sysinfo and /proc/diskstats hold *)

MonitorInit == InitEngine /\ InitPitch(80) /\ InitElement /\ InitDisk /\ InitApp /\ InitLoader /\ InitSmooth /\ InitMonitor /\ InitThreads /\ InitCallbacks

new_metric_value(value) ==
    /\ metric' = [input |-> value, value |-> MetricValue_new(value)]
    /\ UNCHANGED <<system, snapshot, diskVars>>
    /\ MonitorFrame

monitor_refresh(cpus, memory, content, elapsed) ==
    /\ clock + elapsed <= MaxClock
    /\ DiskBounded(disk_monitor, content, clock + elapsed)
    /\ system' = Readings(cpus, memory[1], memory[2])
    /\ clock' = clock + elapsed
    /\ disk_monitor' = DiskMonitor_refresh(disk_monitor, content, clock + elapsed)
    /\ disk_call' = [op |-> "refresh", content |-> content, elapsed |-> elapsed]
    /\ snapshot' = Some(SystemMonitor_refresh(system', disk_monitor'))
    /\ UNCHANGED metric
    /\ MonitorFrame

MonitorNext ==
    \/ \E value \in MetricInputs : new_metric_value(value)
    \/ \E cpus \in CpuReadings, memory \in MemoryReadings, content \in MonitorDiskStats,
          elapsed \in {1} : monitor_refresh(cpus, memory, content, elapsed)

MonitorSpec == MonitorInit /\ [][MonitorNext]_vars

----------------------------------------------------------------------------------------------------------------------------------------
(* The callbacks as state machines. The closures that start_monitoring and
   start_update_loop register hold a Weak of the App; the main context, which
   runs on one thread, calls them one at a time. Under TickSpec update_tick is
   taken one statement at a time: the sampler's refresh, then the three blocks
   of AudioEngine::update. Under HolderSpec the holder of the App can drop it,
   which runs Drop for App, while the main context goes on calling. *)

\* what sysinfo reads at a tick
TickCpus == {<<50, 150>>, <<100, 100, 100, 100>>}

TickMemory == {<<1, 2>>}

\* how often start_monitoring ran before: each run adds a timer and records
\* only the last
Starts == {1, 2}

RECURSIVE start_update_loops(_, _, _)
start_update_loops(a, ctx, n) ==
    IF n = 0 THEN [app |-> a, main_context |-> ctx]
    ELSE LET r == start_update_loop(a, ctx)
         IN  start_update_loops(r.app, r.main_context, n - 1)

\* monitoring a pack from the tray: the pack is loaded and playing, the tray
\* is made and the update loop was started n times
Monitoring(pack, n) ==
    LET a == [App_new EXCEPT !.available_packs = <<pack>>,
                             !.selected_pack_index = Some(0),
                             !.is_monitoring = TRUE,
                             !.tray = TRUE]
        r == start_update_loops(a, [MainContext_new EXCEPT !.running = TRUE], n)
    IN  /\ InitPitch(80) /\ InitElement /\ InitDisk /\ InitLoader /\ InitSmooth /\ InitMonitor
        /\ InitThreads /\ InitCallbacks
        /\ cpu_enabled = TRUE /\ ram_enabled = TRUE /\ disk_enabled = TRUE
        /\ last = [op |-> "new", arg |-> <<>>, result |-> "Ok", again |-> FALSE]
        /\ ticks = 0
        /\ app_call = [op |-> "start"]
        /\ is_playing = TRUE
        /\ current_pack = Some(pack)
        /\ use_averages = pack.config.use_averages
        /\ mixer = AudioMixer_play_all(
                      AudioEngine_load_pack(AudioMixer_new, pack, AppCoreCount, "none"))
        /\ app = r.app
        /\ main_context = r.main_context

\* a timer fires and its closure upgrades the Weak: update_tick borrows the App
\* and refreshes the sampler
update_tick_refresh(source_id, cpus, memory, content) ==
    /\ main_context.running
    /\ tick.pc = "idle"
    /\ holder = "held"
    /\ \E src \in main_context.sources : src.id = source_id
    /\ clock + 1 <= MaxClock
    /\ DiskBounded(disk_monitor, content, clock + 1)
    /\ system' = Readings(cpus, memory[1], memory[2])
    /\ clock' = clock + 1
    /\ disk_monitor' = DiskMonitor_refresh(disk_monitor, content, clock + 1)
    /\ disk_call' = [op |-> "refresh", content |-> content, elapsed |-> 1]
    /\ snapshot' = Some(SystemMonitor_refresh(system', disk_monitor'))
    /\ Bounded(AudioEngine_update(mixer, snapshot'[1], cpu_enabled, ram_enabled, disk_enabled))
    /\ tick' = [tick EXCEPT !.pc = "refreshed", !.before = Some(mixer),
                            !.refreshes = 1, !.updates = 0]
    /\ app_call' = [op |-> "update_tick"]
    /\ UNCHANGED <<engineVars, historyVars, app, main_context, metric, holder>>
    /\ CallbackFrame

\* update(&metrics) is entered and runs its first block
update_cpu ==
    /\ tick.pc = "refreshed"
    /\ mixer' = update_cpu_playback(mixer, snapshot[1], cpu_enabled)
    /\ tick' = [tick EXCEPT !.pc = "cpu", !.updates = @ + 1]
    /\ UNCHANGED <<current_pack, is_playing, cpu_enabled, ram_enabled, disk_enabled, use_averages>>
    /\ UNCHANGED <<historyVars, diskVars, appVars, monitorVars, holder>>
    /\ CallbackFrame

update_ram ==
    /\ tick.pc = "cpu"
    /\ mixer' = update_ram_channel(mixer, snapshot[1], ram_enabled)
    /\ tick' = [tick EXCEPT !.pc = "ram"]
    /\ UNCHANGED <<current_pack, is_playing, cpu_enabled, ram_enabled, disk_enabled, use_averages>>
    /\ UNCHANGED <<historyVars, diskVars, appVars, monitorVars, holder>>
    /\ CallbackFrame

\* the last block of update(); update_tick returns and the closure returns
\* Continue
update_disk ==
    /\ tick.pc = "ram"
    /\ mixer' = update_disk_channel(mixer, snapshot[1], disk_enabled)
    /\ tick' = [tick_idle EXCEPT !.refused = tick.refused]
    /\ UNCHANGED <<current_pack, is_playing, cpu_enabled, ram_enabled, disk_enabled, use_averages>>
    /\ UNCHANGED <<historyVars, diskVars, appVars, monitorVars, holder>>
    /\ CallbackFrame

\* a closure of the tray that calls its handler whether the App is there or not
with_app_unchecked(name, handler) ==
    /\ tick.pc = "idle"
    /\ handler

\* a closure of the tray, called between two callbacks: it upgrades its Weak
\* and calls the handler, or finds the App gone and returns
with_app(name, handler) ==
    /\ tick.pc = "idle"
    /\ IF holder = "held"
       THEN handler
       ELSE /\ main_context.running
            /\ app.tray
            /\ tick' = [tick EXCEPT !.refused = Some(name)]
            /\ UNCHANGED <<engineVars, historyVars, diskVars, appVars, monitorVars, holder>>
            /\ CallbackFrame

TickInit == \E pack \in Packs : Monitoring(pack, 1)

TickNext ==
    \/ \E src \in main_context.sources, cpus \in TickCpus, memory \in TickMemory,
          content \in MonitorDiskStats : update_tick_refresh(src.id, cpus, memory, content)
    \/ update_cpu
    \/ update_ram
    \/ update_disk
    \/ \E volume \in AppVolumes : with_app("on_volume_changed", on_volume_changed(volume))
    \/ \E enabled \in BOOLEAN : with_app("on_cpu_toggled", on_cpu_toggled(enabled))
    \/ \E enabled \in BOOLEAN : with_app("on_ram_toggled", on_ram_toggled(enabled))
    \/ \E enabled \in BOOLEAN : with_app("on_disk_toggled", on_disk_toggled(enabled))

TickSpec == TickInit /\ [][TickNext]_vars

\* a timer fires and its closure upgrades the Weak: update_tick, and Continue
timeout_continue(source_id, metrics) ==
    /\ tick.pc = "idle"
    /\ holder = "held"
    /\ timeout(source_id, metrics)

\* a timer fires and its closure finds the App gone: it returns Break and the
\* main context removes the source
timeout_break(source_id) ==
    /\ main_context.running
    /\ tick.pc = "idle"
    /\ holder = "dropped"
    /\ \E src \in main_context.sources : src.id = source_id
    /\ main_context' = source_remove(main_context, source_id)
    /\ tick' = [tick EXCEPT !.refused = Some("timeout")]
    /\ UNCHANGED <<engineVars, historyVars, diskVars, app, app_call, monitorVars, holder>>
    /\ CallbackFrame

\* the holder drops the App: Drop for App runs shutdown()
drop_app ==
    /\ holder = "held"
    /\ tick.pc = "idle"
    /\ holder' = "dropped"
    /\ LET r == App_shutdown(app, main_context)
       IN  app' = r.app /\ main_context' = r.main_context
    /\ mixer' = AudioEngine_stop(mixer)
    /\ is_playing' = FALSE
    /\ app_call' = [op |-> "shutdown"]
    /\ UNCHANGED <<current_pack, cpu_enabled, ram_enabled, disk_enabled, use_averages>>
    /\ UNCHANGED <<historyVars, diskVars, monitorVars, tick>>
    /\ CallbackFrame

HolderInit == \E n \in Starts : Monitoring(PackAveraged, n)

HolderNext ==
    \/ \E src \in main_context.sources, metrics \in AppMetrics : timeout_continue(src.id, metrics)
    \/ \E src \in main_context.sources : timeout_break(src.id)
    \/ \E rate \in RefreshRates : with_app("on_refresh_rate_changed", on_refresh_rate_changed(rate))
    \/ \E volume \in AppVolumes : with_app("on_volume_changed", on_volume_changed(volume))
    \/ \E enabled \in BOOLEAN : with_app("on_cpu_toggled", on_cpu_toggled(enabled))
    \/ \E enabled \in BOOLEAN : with_app("on_ram_toggled", on_ram_toggled(enabled))
    \/ \E enabled \in BOOLEAN : with_app("on_disk_toggled", on_disk_toggled(enabled))
    \/ \E scanned \in ScannedPacks : with_app("on_show_window", on_show_window(scanned))
    \/ drop_app

HolderSpec == HolderInit /\ [][HolderNext]_vars

----------------
(* Properties of the engine, checked under Spec *)

\* the pack of the model with this name
PackNamed(name) == CHOOSE p \in Packs : p.name = name

\* the files a pack resolves for its three channels
PackPaths(pack) ==
    {s[1] : s \in {pack.cpu_sounds.primary, pack.cpu_sounds.secondary,
                   pack.ram_sounds.primary, pack.ram_sounds.secondary,
                   pack.disk_sounds.primary, pack.disk_sounds.secondary} \ {None}}

\* the files the mixer's pipelines play
MixerUris(m) ==
    UNION {{e.uri : e \in Elements(ch)} : ch \in Channels(m)} \cup {pl.uri : pl \in Players(m)}

\* the one-pole step written out: c + (t - c) * speed
Step(c, t, speed) == RAdd(c, RMul(RSub(t, c), speed))

\* C1: play() while no pack is loaded returns NoPackLoaded and leaves the engine
\* and the mixer as they were: is_playing stays false, no pipeline is started.
C1_PlayWithoutPack ==
    [][(~is_some(current_pack) /\ last'.op = "play")
        => (last'.result = "NoPackLoaded" /\ UNCHANGED engineVars /\ ~is_playing')]_vars

\* a play() that failed in a never-loaded engine
C1_Witness ==
    /\ last.op = "play"
    /\ last.result = "NoPackLoaded"
    /\ ~is_some(current_pack)
    /\ ~is_playing
    /\ mixer = AudioMixer_new

\* C2: after a load_pack(P) that returned Ok the engine is Loaded: not playing,
\* every pipeline in the null state, P the current pack, a channel exactly for
\* each metric P has sounds for, playing P's files in P's modes, every smoothed
\* value 0.  In every state the engine is Unloaded, Loaded/Stopped or Playing
\* (never playing without a pack), and a pipeline plays only while is_playing.
C2_LoadPackLeavesLoaded ==
    /\ is_playing => is_some(current_pack)
    /\ ("Playing" \in PipelineStates(mixer)) => is_playing
    /\ (last.op = "load_pack" /\ last.result = "Ok") =>
          LET P == PackNamed(last.arg[1])
          IN  /\ ~is_playing
              /\ current_pack = Some(P)
              /\ PipelineStates(mixer) \subseteq {"Null"}
              /\ is_some(mixer.cpu_playback) <=> has_sounds(P.cpu_sounds)
              /\ is_some(mixer.ram_channel) <=> has_sounds(P.ram_sounds)
              /\ is_some(mixer.disk_channel) <=> has_sounds(P.disk_sounds)
              /\ MixerUris(mixer) \subseteq PackPaths(P)
              /\ is_some(mixer.cpu_playback) =>
                    IF P.config.use_averages
                    THEN /\ mixer.cpu_playback[1].kind = "Averaged"
                         /\ mixer.cpu_playback[1].ch.mode = P.config.cpu_mode
                    ELSE mixer.cpu_playback[1].kind = "PerCore"
              /\ is_some(mixer.ram_channel) => mixer.ram_channel[1].mode = P.config.ram_mode
              /\ is_some(mixer.disk_channel) => mixer.disk_channel[1].mode = P.config.disk_mode
              /\ SmoothedValues(mixer) \subseteq {Zero}

\* a pack with fewer channels loaded over the user's volume setting
C2_Witness ==
    /\ last.op = "load_pack"
    /\ last.result = "Ok"
    /\ current_pack = Some(PackSlow)
    /\ mixer.master_volume = Half
    /\ ~cpu_enabled
    /\ MixerUris(mixer) = {"slow/CPU.ogg"}

\* the target update() feeds for a metric: its value when enabled, else 0.0
Fed(enabled, value) == IF enabled THEN value ELSE Zero

\* C3: update(metrics) moves every existing channel by exactly one smoothing
\* step toward the metric's value when that metric is enabled and toward 0.0
\* when it is disabled (a disabled channel is smoothed, not skipped).
C3_UpdateFeedsEveryChannel ==
    [][(last'.op = "update") =>
        LET metrics == last'.arg[1]
            cpu == mixer.cpu_playback
            cpu2 == mixer'.cpu_playback
        IN  /\ (is_some(cpu) /\ cpu[1].kind = "Averaged") =>
                  cpu2[1].ch.current_value =
                      Step(cpu[1].ch.current_value, Fed(cpu_enabled, metrics.cpu_average),
                           cpu[1].ch.transition_speed)
            /\ (is_some(cpu) /\ cpu[1].kind = "PerCore") =>
                  \A i \in DOMAIN cpu[1].player.current_values :
                      cpu2[1].player.current_values[i] =
                          Step(cpu[1].player.current_values[i],
                               Fed(cpu_enabled, IF i <= Len(metrics.cpu_cores)
                                                THEN metrics.cpu_cores[i] ELSE Zero),
                               cpu[1].player.transition_speed)
            /\ is_some(mixer.ram_channel) =>
                  mixer'.ram_channel[1].current_value =
                      Step(mixer.ram_channel[1].current_value, Fed(ram_enabled, metrics.memory),
                           mixer.ram_channel[1].transition_speed)
            /\ is_some(mixer.disk_channel) =>
                  mixer'.disk_channel[1].current_value =
                      Step(mixer.disk_channel[1].current_value, Fed(disk_enabled, metrics.disk),
                           mixer.disk_channel[1].transition_speed)]_vars

\* a disabled CPU channel part of the way down to 0: it was at 1/2 and one
\* update with the metric disabled halved it
C3_Witness ==
    /\ last.op = "update"
    /\ ~cpu_enabled
    /\ is_some(mixer.cpu_playback)
    /\ mixer.cpu_playback[1].kind = "Averaged"
    /\ mixer.cpu_playback[1].ch.current_value = Rat(1, 4)
    /\ last.arg[1] = MetricsBusy

\* the averaged CPU channel when it is in volume mode with its sound
CpuVolumeChannel ==
    IF /\ is_some(mixer.cpu_playback)
       /\ mixer.cpu_playback[1].kind = "Averaged"
       /\ mixer.cpu_playback[1].ch.mode = "Volume"
       /\ is_some(mixer.cpu_playback[1].ch.primary)
    THEN {mixer.cpu_playback[1].ch} ELSE {}

\* C4: after every update the averaged CPU channel in volume mode has primary
\* volume = smoothed value * master_volume; with transition speed 1
\* (SlideInterval=1), cpu_average=1.0 fed for 10 ticks gives a volume of at
\* least 0.99 * master_volume, and 10 ticks with the CPU metric disabled give
\* a volume of at most 0.01.
C4_AveragedCpuVolume ==
    (last.op = "update") =>
        \A ch \in CpuVolumeChannel :
            LET volume == ch.primary[1].volume
            IN  /\ volume = RMul(ch.current_value, ch.master_volume)
                /\ (/\ ch.transition_speed = One
                    /\ cpu_enabled
                    /\ last.arg[1].cpu_average = One
                    /\ ticks >= 10) => RLe(RMul(Rat(99, 100), ch.master_volume), volume)
                /\ (/\ ch.transition_speed = One
                    /\ ~cpu_enabled
                    /\ ticks >= 10) => RLe(volume, Rat(1, 100))

\* ten ticks of full CPU load at half master volume
C4_Witness ==
    /\ last.op = "update"
    /\ ticks >= 10
    /\ cpu_enabled
    /\ last.arg[1] = MetricsBusy
    /\ \E ch \in CpuVolumeChannel :
          /\ ch.transition_speed = One
          /\ ch.master_volume = Half
          /\ ch.primary[1].volume = Half

\* the channels with the flag and the metric value update() feeds them
FedChannels(metrics) ==
    (IF is_some(mixer.cpu_playback) /\ mixer.cpu_playback[1].kind = "Averaged"
     THEN {<<mixer.cpu_playback[1].ch, cpu_enabled, metrics.cpu_average>>} ELSE {})
    \cup (IF is_some(mixer.ram_channel)
          THEN {<<mixer.ram_channel[1], ram_enabled, metrics.memory>>} ELSE {})
    \cup (IF is_some(mixer.disk_channel)
          THEN {<<mixer.disk_channel[1], disk_enabled, metrics.disk>>} ELSE {})

\* C5: after every update a fade-mode channel with both sounds has primary
\* volume = (1 - smoothed) * master_volume and secondary volume = smoothed *
\* master_volume, which sum to master_volume; with transition speed 1 a target
\* of 0.0 gives (master_volume, 0) and a metric of 1.0 held for 10 ticks gives
\* primary <= 0.01 and secondary >= 0.99 * master_volume.
C5_FadeCrossfade ==
    (last.op = "update") =>
        \A f \in FedChannels(last.arg[1]) :
            LET ch == f[1]
                M == ch.master_volume
            IN  (ch.mode = "Fade" /\ is_some(ch.primary) /\ is_some(ch.secondary)) =>
                  LET idle == ch.primary[1].volume
                      active == ch.secondary[1].volume
                  IN  /\ idle = RMul(RSub(One, ch.current_value), M)
                      /\ active = RMul(ch.current_value, M)
                      /\ RAdd(idle, active) = M
                      /\ (ch.transition_speed = One /\ Fed(f[2], f[3]) = Zero)
                            => (idle = M /\ active = Zero)
                      /\ (ch.transition_speed = One /\ f[2] /\ f[3] = One /\ ticks >= 10)
                            => (RLe(idle, Rat(1, 100)) /\ RLe(RMul(Rat(99, 100), M), active))

\* ten ticks of full memory load on the RAM_A/RAM_B pair at half master volume
C5_Witness ==
    /\ last.op = "update"
    /\ ticks >= 10
    /\ ram_enabled
    /\ last.arg[1].memory = One
    /\ is_some(mixer.ram_channel)
    /\ LET ch == mixer.ram_channel[1]
       IN  /\ ch.mode = "Fade"
           /\ is_some(ch.secondary)
           /\ ch.master_volume = Half
           /\ ch.primary[1].volume = Zero
           /\ ch.secondary[1].volume = Half

\* C6: after stop() followed directly by a successful play(), every smoothed
\* value is 0 and every volume element is at 0.
C6_RestartFromSilence ==
    [][(last.op = "stop" /\ last'.op = "play" /\ last'.result = "Ok")
        => (/\ SmoothedValues(mixer') \subseteq {Zero}
            /\ ElementVolumes(mixer') \subseteq {Zero})]_vars

\* which channels the mixer holds and the files they play
ChannelSet(m) ==
    <<is_some(m.cpu_playback), is_some(m.ram_channel), is_some(m.disk_channel), MixerUris(m)>>

\* C7: stop() returns Ok in every state and leaves is_playing false, every
\* smoothed value 0, the current pack and the channel set as they were; a
\* stop() directly after a stop() changes nothing.
C7_StopIdempotent ==
    [][(last'.op = "stop")
        => (/\ last'.result = "Ok"
            /\ ~is_playing'
            /\ SmoothedValues(mixer') \subseteq {Zero}
            /\ current_pack' = current_pack
            /\ ChannelSet(mixer') = ChannelSet(mixer)
            /\ last'.again => UNCHANGED engineVars)]_vars

\* a second stop() in a row, on a loaded pack whose volumes had been written
C7_Witness ==
    /\ last.op = "stop"
    /\ last.again
    /\ last.result = "Ok"
    /\ is_some(current_pack)
    /\ ElementVolumes(mixer) # {Zero}
    /\ SmoothedValues(mixer) = {Zero}

\* the master_volume field of every channel and player of the mixer
ChannelMasterVolumes(m) ==
    {ch.master_volume : ch \in Channels(m)} \cup {pl.master_volume : pl \in Players(m)}

\* C8: a successful load_pack(P) leaves every smoothed value 0, every volume
\* element at 0, the engine not playing and every channel at the master volume
\* a fresh channel has; a load_pack(P) directly after a successful load_pack(P)
\* changes nothing of the engine or the mixer.
C8_ReloadIdempotent ==
    [][(last'.op = "load_pack" /\ last'.result = "Ok")
        => (/\ SmoothedValues(mixer') \subseteq {Zero}
            /\ ElementVolumes(mixer') \subseteq {Zero}
            /\ ~is_playing'
            /\ ChannelMasterVolumes(mixer') \subseteq {One}
            /\ last'.again => UNCHANGED engineVars)]_vars

\* the same pack loaded twice in a row
C8_Witness ==
    /\ last.op = "load_pack"
    /\ last.again
    /\ last.result = "Ok"
    /\ current_pack = Some(PackAveraged)
    /\ is_some(mixer.ram_channel)
    /\ mixer.master_volume = Half

\* a process_sample step on the bypass path after the initial fill
BypassStep ==
    /\ Len(inputs') = Len(inputs) + 1
    /\ shifter.pitch_ratio = One
    /\ shifter'.samples_written >= shifter.delay_samples + shifter.grain_size

\* C9 as stated: with pitch_ratio = 1.0 and samples_written >= delay_samples +
\* grain_size, process_sample returns the input given delay_samples calls
\* earlier.
C9_BypassDelayStated ==
    [][BypassStep
        => output' = Some(inputs'[Len(inputs') - shifter.delay_samples])]_vars

\* C9: with pitch_ratio = 1.0 and samples_written >= delay_samples +
\* grain_size, process_sample returns the input given delay_samples - 1 calls
\* earlier: the write position has moved past the new sample when the delay
\* position is taken from it.
C9_BypassDelay ==
    [][BypassStep
        => output' = Some(inputs'[Len(inputs') - (shifter.delay_samples - 1)])]_vars

\* a bypass output that is the input of delay_samples - 1 calls earlier and
\* differs from the one of delay_samples calls earlier
C9_Witness ==
    /\ Len(inputs) >= shifter.delay_samples + shifter.grain_size
    /\ shifter.samples_written = Len(inputs)
    /\ shifter.pitch_ratio = One
    /\ shifter.grain_a = GrainReader_new(Zero, Zero)
    /\ output = Some(inputs[Len(inputs) - (shifter.delay_samples - 1)])
    /\ output # Some(inputs[Len(inputs) - shifter.delay_samples])

\* C10 as stated: each of the first delay_samples + grain_size calls to
\* process_sample after construction or reset returns 0.0.
C10_WarmUpStated ==
    (is_some(output) /\ Len(inputs) <= shifter.delay_samples + shifter.grain_size)
        => output = Some(Zero)

\* C10: each of the first delay_samples + grain_size - 1 calls to
\* process_sample after construction or reset returns 0.0, for every input
\* and every pitch ratio.
C10_WarmUp ==
    (is_some(output) /\ Len(inputs) <= shifter.delay_samples + shifter.grain_size - 1)
        => output = Some(Zero)

\* the last silent call of the initial fill, with non-zero inputs and a pitch
\* ratio off the bypass
C10_Witness ==
    /\ Len(inputs) = shifter.delay_samples + shifter.grain_size - 1
    /\ shifter.samples_written = Len(inputs)
    /\ output = Some(Zero)
    /\ ~is_bypass(shifter.pitch_ratio)
    /\ \A i \in 1..Len(inputs) : inputs[i] # Zero

----------------------------------------------------------------------------
(* Properties of the element, checked under ElementSpec *)

\* 0.25 <= ratio <= 4.0
InPitchRange(ratio) == RLe(Rat(1, 4), ratio) /\ RLe(ratio, Rat(4, 1))

\* C11: the pitch ratio of a shifter is always in [0.25, 4.0], in the element
\* and alone; after the "pitch" property is set to r, and after
\* set_pitch_ratio(r), the ratio is r when r is in [0.25, 4.0] and
\* clamp(r, 0.25, 4.0) otherwise; set_caps and transform_ip give the shifter
\* the clamped value of the property.
C11_PitchRatioInRange ==
    /\ InPitchRange(shifter.pitch_ratio)
    /\ is_some(element.state) =>
          LET ratio == element.state[1].pitch_ratio
          IN  /\ InPitchRange(ratio)
              /\ ratio = clamp(element.pitch_ratio, Rat(1, 4), Rat(4, 1))
              /\ (flow.op = "set_property" /\ InPitchRange(flow.arg[1])) => ratio = flow.arg[1]

\* a negotiated element whose property was set above the range after samples
\* had gone through it
C11_Witness ==
    /\ flow.op = "set_property"
    /\ flow.arg[1] = Rat(5, 1)
    /\ is_some(element.state)
    /\ element.state[1].pitch_ratio = Rat(4, 1)
    /\ element.state[1].samples_written > 0
    /\ shifter.pitch_ratio = Rat(1, 4)

----------------------------------------------------------------------------
(* Properties of the disk monitor, checked under DiskSpec *)

\* C12: is_physical_device accepts sda, hda, vda, xvda, nvme0n1 and mmcblk0
\* and rejects sda1, nvme0n1p1, nvme0n1p2, mmcblk0p1, loop0, ram0 and dm-0;
\* for a /proc/diskstats holding sda, sda1, nvme0n1, nvme0n1p2, loop0, dm-0,
\* mmcblk0 and mmcblk0p1 the totals are the sums over sda, nvme0n1 and mmcblk0.
C12_WholeDevicesOnly ==
    /\ \A device_name \in {Dev_sda, Dev_hda, Dev_vda, Dev_xvda, Dev_nvme0n1, Dev_mmcblk0} :
          is_physical_device(device_name)
    /\ \A device_name \in {Dev_sda1, Dev_nvme0n1p1, Dev_nvme0n1p2, Dev_mmcblk0p1,
                           Dev_loop0, Dev_ram0, Dev_dm0} :
          ~is_physical_device(device_name)
    /\ \A t \in {1, 2} :
          (disk_call.content = MixedStats(t)) =>
              /\ disk_monitor.last_read_sectors = t + 2 * t + 0
              /\ disk_monitor.last_write_sectors = 0 + t + t

\* what activity() returns
Activity == DiskMonitor_activity(disk_monitor)

\* max_activity >= 1000 and 0 <= activity() <= 1
C13_Range ==
    /\ RLe(MIN_MAX_ACTIVITY, disk_monitor.max_activity)
    /\ RLe(Zero, Activity)
    /\ RLe(Activity, One)

\* a refresh that measured an activity above the previous max_activity
C13_Peak ==
    (/\ disk_call'.op = "refresh"
     /\ disk_call'.elapsed > 0
     /\ RLt(disk_monitor.max_activity, disk_monitor'.activity_level))
        => (/\ disk_monitor'.max_activity = disk_monitor'.activity_level
            /\ DiskMonitor_activity(disk_monitor') = One)

\* C13: after any sequence of refresh calls max_activity >= 1000 and
\* activity() is in [0, 1]; a refresh whose measured activity exceeds the
\* previous max_activity sets max_activity to that activity at once and
\* reports exactly 1.0.
C13_AdaptiveMaximum == []C13_Range /\ [][C13_Peak]_vars

\* a new peak above the floor, reported as 1.0
C13_Witness ==
    /\ disk_call.op = "refresh"
    /\ disk_call.elapsed > 0
    /\ RLt(MIN_MAX_ACTIVITY, disk_monitor.max_activity)
    /\ disk_monitor.activity_level = disk_monitor.max_activity
    /\ Activity = One

\* a refresh that finds neither total above what the previous refresh found,
\* and one of them below it
TotalsFell ==
    LET totals == read_disk_stats(disk_call'.content)
    IN  /\ disk_call'.op = "refresh"
        /\ totals[1] <= disk_monitor.last_read_sectors
        /\ totals[2] <= disk_monitor.last_write_sectors
        /\ totals # <<disk_monitor.last_read_sectors, disk_monitor.last_write_sectors>>

\* an unreadable /proc/diskstats gives the totals (0, 0), and the activity
\* level is never negative
C14_Totals ==
    /\ ~is_some(disk_call.content) =>
          (disk_monitor.last_read_sectors = 0 /\ disk_monitor.last_write_sectors = 0)
    /\ RLe(Zero, disk_monitor.activity_level)

\* C14 as stated: an unreadable /proc/diskstats yields totals (0, 0), and a
\* refresh that finds the totals lower than the previous refresh did reports
\* activity 0.
C14_SaturatingDeltaStated ==
    []C14_Totals
    /\ [][TotalsFell => (/\ disk_monitor'.activity_level = Zero
                         /\ DiskMonitor_activity(disk_monitor') = Zero)]_vars

\* C14: an unreadable /proc/diskstats yields totals (0, 0) and the activity
\* level is never negative; a refresh that finds the totals lower than the
\* previous refresh did reports activity 0 when time has passed since that
\* refresh, and keeps the activity level it had when no time has passed.
C14_SaturatingDelta ==
    []C14_Totals
    /\ [][TotalsFell => IF disk_call'.elapsed > 0
                        THEN /\ disk_monitor'.activity_level = Zero
                             /\ DiskMonitor_activity(disk_monitor') = Zero
                        ELSE disk_monitor'.activity_level = disk_monitor.activity_level]_vars

\* /proc/diskstats became unreadable after there had been traffic
C14_Witness ==
    /\ disk_call.op = "refresh"
    /\ disk_call.elapsed > 0
    /\ ~is_some(disk_call.content)
    /\ disk_monitor.last_read_sectors = 0
    /\ disk_monitor.activity_level = Zero
    /\ RLt(MIN_MAX_ACTIVITY, disk_monitor.max_activity)

----------------------------------------------------------------------------
(* Properties of the application, checked under AppSpec *)

\* C15: set_refresh_rate(r) removes the timer recorded as current before it
\* installs the new one: afterwards no timer installed before the call is
\* left, exactly one timer is installed, its period is r, and update_source_id
\* identifies it.
C15_RateChangeReplacesTimer ==
    [][(app_call'.op = "set_refresh_rate")
        => (/\ main_context'.sources \cap main_context.sources = {}
            /\ Cardinality(main_context'.sources) = 1
            /\ \A src \in main_context'.sources :
                  /\ src.interval = app'.refresh_rate
                  /\ app'.update_source_id = Some(src.id))]_vars

\* C16: after shutdown() the engine is stopped (is_playing false, every
\* pipeline null), is_monitoring is false, no update timer is installed and
\* none is recorded; a second shutdown() changes nothing.
C16_ShutdownStopsEverything ==
    [][(app_call'.op = "shutdown")
        => (/\ ~is_playing'
            /\ PipelineStates(mixer') \subseteq {"Null"}
            /\ ~app'.is_monitoring
            /\ app'.update_source_id = None
            /\ main_context'.sources = {}
            /\ (app_call.op = "shutdown") => UNCHANGED <<engineVars, app, main_context>>)]_vars

----------------------------------------------------------------------------
(* Properties of the pack loader, checked under LoaderSpec *)

\* the [soundpack] section load_pack was given, when there is one
HasSection == pack_dir.prefs # None /\ pack_dir.prefs[1].soundpack # None

Section == pack_dir.prefs[1].soundpack[1]

Loaded == load_result # None /\ load_result[1].ok

LoadedPack == load_result[1].value

\* the three channels of the loaded pack: mode and resolved sounds
LoadedChannels ==
    {[mode |-> LoadedPack.config.cpu_mode, sounds |-> LoadedPack.cpu_sounds],
     [mode |-> LoadedPack.config.ram_mode, sounds |-> LoadedPack.ram_sounds],
     [mode |-> LoadedPack.config.disk_mode, sounds |-> LoadedPack.disk_sounds]}

\* the channel the engine builds from a mode and its resolved sounds
BuiltChannel(c) ==
    AudioChannel_new(c.mode, c.sounds.primary, c.sounds.secondary,
                     LoadedPack.config.slide_interval,
                     LoadedPack.config.frequency_fluctuation, Zero)

\* C17: the sounds of a loaded pack follow the channel mode: a Disabled
\* channel has no files, a Volume channel a single file or none, a Fade
\* channel a complete pair or none, so that no Fade channel is built with a
\* primary sound only.
C17_SoundsFollowMode ==
    Loaded =>
        \A c \in LoadedChannels :
            /\ c.mode = "Disabled" => c.sounds = ChannelSounds_none
            /\ c.mode = "Volume" => c.sounds.secondary = None
            /\ c.mode = "Fade" =>
                  \/ c.sounds = ChannelSounds_none
                  \/ is_some(c.sounds.primary) /\ is_some(c.sounds.secondary)
            /\ has_sounds(c.sounds) =>
                  ~(/\ BuiltChannel(c).mode = "Fade"
                    /\ is_some(BuiltChannel(c).primary)
                    /\ BuiltChannel(c).secondary = None)

\* what a text of the model is as a decimal number, None when it is none
NumberOf(text) ==
    CASE text = <<"0">> -> Some(0)
      [] text = <<"1">> -> Some(1)
      [] text = <<"2">> -> Some(2)
      [] text = <<"3">> -> Some(3)
      [] text = <<"-", "1">> -> Some(-1)
      [] text = <<"+", "2">> -> Some(2)
      [] OTHER -> None

\* the number a key of the section gives, None when the key is missing or
\* its value is no number
Given(key) == IF key \in DOMAIN Section THEN NumberOf(Section[key]) ELSE None

ExpectedMode(key) ==
    IF Given(key) = None THEN SoundPackConfig_default[
            CASE key = "CPUSoundMode" -> "cpu_mode"
              [] key = "RAMSoundMode" -> "ram_mode"
              [] key = "DiskSoundMode" -> "disk_mode"]
    ELSE IF Given(key)[1] = 0 THEN "Disabled"
    ELSE IF Given(key)[1] = 2 THEN "Fade"
    ELSE "Volume"

\* C18: with a [soundpack] section load_pack succeeds whatever the keys hold;
\* a key that is missing or whose value is no number takes its default, a
\* sound mode outside 0..2 means Volume, and a key load_pack does not read
\* changes nothing.
C18_ParsingIsTotal ==
    (HasSection /\ load_result # None) =>
        /\ load_result[1].ok
        /\ LoadedPack.config.use_averages =
              (IF Given("UseAverages") = None THEN SoundPackConfig_default.use_averages
               ELSE Given("UseAverages")[1] # 0)
        /\ LoadedPack.config.frequency_fluctuation =
              (IF Given("FrequencyFluctuation") = None
               THEN SoundPackConfig_default.frequency_fluctuation
               ELSE Given("FrequencyFluctuation")[1] # 0)
        /\ LoadedPack.config.cpu_mode = ExpectedMode("CPUSoundMode")
        /\ LoadedPack.config.ram_mode = ExpectedMode("RAMSoundMode")
        /\ LoadedPack.config.disk_mode = ExpectedMode("DiskSoundMode")
        /\ (Given("SlideInterval") = None \/ Given("SlideInterval")[1] < 0)
              => LoadedPack.config.slide_interval = SoundPackConfig_default.slide_interval
        /\ ("Author" \in DOMAIN Section /\ Cardinality(DOMAIN Section) = 1)
              => LoadedPack.config = SoundPackConfig_default

\* a section with an unknown key and a mode that is a number outside 0..2, loaded
C18_Witness ==
    /\ HasSection
    /\ load_result # None
    /\ "Author" \in DOMAIN Section
    /\ "CPUSoundMode" \in DOMAIN Section
    /\ Section["CPUSoundMode"] = <<"3">>
    /\ LoadedPack.config.cpu_mode = "Volume"

\* C19 as stated: every configuration the loader produces has
\* slide_interval >= 1.
C19_SlideIntervalPositiveStated ==
    Loaded => LoadedPack.config.slide_interval >= 1

\* C19: every configuration the loader produces has slide_interval >= 0: a
\* SlideInterval that is an unsigned number is kept as it is, 0 included; a
\* negative, malformed or missing one gives 20; and the transition speed the
\* engine makes of it is 1 / max(slide_interval, 1), so in (0, 1].
C19_SlideIntervalNonNegative ==
    Loaded =>
        LET slide == LoadedPack.config.slide_interval
            speed == transition_speed_of(slide)
        IN  /\ slide >= 0
            /\ (Given("SlideInterval") # None /\ Given("SlideInterval")[1] >= 0)
                  => slide = Given("SlideInterval")[1]
            /\ (Given("SlideInterval") = None \/ Given("SlideInterval")[1] < 0)
                  => slide = 20
            /\ RLt(Zero, speed) /\ RLe(speed, One)
            /\ speed = (IF slide = 0 THEN One ELSE Rat(1, slide))

\* SlideInterval=0 loaded: the configuration holds 0
C19_Witness ==
    /\ Loaded
    /\ "SlideInterval" \in DOMAIN Section
    /\ Section["SlideInterval"] = <<"0">>
    /\ LoadedPack.config.slide_interval = 0

----------------------------------------------------------------------------
(* Properties of the smoothing, checked under SmoothSpec *)

RAbs(a) == IF a[1] < 0 THEN Rat(0 - a[1], a[2]) ELSE a

RECURSIVE RPow(_, _)
RPow(a, k) == IF k = 0 THEN One ELSE RMul(a, RPow(a, k - 1))

\* tau = 1 / max(slide_interval, 1)
Tau == IF held.slide_interval < 1 THEN One ELSE Rat(1, held.slide_interval)

Distance(value, target) == RAbs(RSub(value, target))

\* value2 is no farther from the target than value and not on its other side
Approaches(value, value2, target) ==
    /\ RLe(Distance(value2, target), Distance(value, target))
    /\ RLe(Zero, RMul(RSub(value, target), RSub(value2, target)))

\* after k updates with the target the distance is (1 - tau)^k times the
\* distance at the start
ClosedForm(value, start) ==
    Distance(value, held.target) =
        RMul(RPow(RSub(One, Tau), held.k), Distance(start, held.target))

C20_ClosedForm ==
    held.k > 0 =>
        /\ ClosedForm(audio_channel.current_value, held.start)
        /\ \A i \in 1..SmoothCoreCount :
              ClosedForm(core_player.current_values[i], held.core_start[i])

C20_Step ==
    /\ Approaches(audio_channel.current_value, audio_channel'.current_value, held'.target)
    /\ \A i \in 1..SmoothCoreCount :
          Approaches(core_player.current_values[i], core_player'.current_values[i],
                     held'.target)

\* C20: while a target t is held over successive updates, the smoothed value
\* of an AudioChannel and of every core of a PerCoreCpuPlayer never gets
\* farther from t, never crosses to the other side of t, and after k updates
\* is at (1 - tau)^k times its starting distance from t, tau being
\* 1 / max(slide_interval, 1).
C20_MonotoneApproach == []C20_ClosedForm /\ [][C20_Step]_vars

\* a target below the smoothed value held for two updates with a slide
\* interval of at least 2: the value has come down part of the way
C20_Witness ==
    /\ held.slide_interval >= 2
    /\ held.k >= 2
    /\ RLt(held.target, audio_channel.current_value)
    /\ RLt(audio_channel.current_value, held.start)
    /\ RLt(held.target, core_player.current_values[1])
    /\ RLt(core_player.current_values[1], held.core_start[1])

----------------------------------------------------------------------------
(* Properties of the per-core player, checked under Spec *)

\* the root of a core count of the model
RootOf(n) == Rat(CHOOSE r \in 1..n : r * r = n, 1)

EvenSpread(pans) ==
    LET N == Len(pans)
    IN  /\ N = 1 => pans[1] = Zero
        /\ N >= 2 =>
              /\ \A i \in 1..N : pans[i] = RAdd(Rat(-1, 1), Rat(2 * (i - 1), N - 1))
              /\ pans[1] = Rat(-1, 1)
              /\ pans[N] = One
              /\ \A i \in 1..(N - 1) :
                    /\ RLt(pans[i], pans[i + 1])
                    /\ RSub(pans[i + 1], pans[i]) = Rat(2, N - 1)
              /\ \A i \in 1..N : pans[i] = RSub(Zero, pans[N + 1 - i])
        /\ N = 4 => pans = <<Rat(-1, 1), Rat(-1, 3), Rat(1, 3), One>>

\* C22: the pan positions of a per-core player are spread evenly over
\* [-1, +1]: one branch is centred; with N >= 2 branch i is at
\* -1 + 2i/(N-1), the first at -1, the last at +1, strictly increasing with
\* equal spacing and symmetric about 0 (N = 4: -1, -1/3, +1/3, +1). This holds
\* for the player the mixer holds and, computed the same way, for every core
\* count up to MaxCores.
C22_PanSpread ==
    \A pl \in Players(mixer) :
        /\ EvenSpread(pl.panorama_elements)
        /\ \A n \in 1..MaxCores : EvenSpread([i \in 1..n |-> pan_position(i - 1, n)])

\* a four-core player built by load_pack
C22_Witness ==
    \E pl \in Players(mixer) :
        /\ Len(pl.panorama_elements) = 4
        /\ pl.panorama_elements[2] = Rat(-1, 3)
        /\ pl.panorama_elements[4] = One

----------------------------------------------------------------------------
(* Properties of the sampler, checked under MonitorSpec *)

InUnitRange(x) == is_finite(x) /\ RLe(Zero, x) /\ RLe(x, One)

clamp01(x) == IF x[1] < 0 THEN Zero ELSE IF x[1] > x[2] THEN One ELSE x

\* C23: MetricValue::new(x).get() is in [0, 1] for every x and is clamp01(x)
\* for a finite x, and every field of a SystemMetrics snapshot is in [0, 1].
C23_MetricInUnitRange ==
    /\ InUnitRange(metric.value)
    /\ is_finite(metric.input) => metric.value = clamp01(metric.input)
    /\ snapshot # None =>
          /\ \A i \in DOMAIN snapshot[1].cpu_cores : InUnitRange(snapshot[1].cpu_cores[i])
          /\ InUnitRange(snapshot[1].cpu_average)
          /\ InUnitRange(snapshot[1].memory)
          /\ InUnitRange(snapshot[1].disk)

----------------------------------------------------------------------------
(* Properties of the update timer, checked under AppSpec *)

\* C24: at most one update timer is installed at any time, and its period is
\* the current refresh rate.
C24_OneUpdateTimer ==
    /\ Cardinality(main_context.sources) <= 1
    /\ \A src \in main_context.sources : src.interval = app.refresh_rate

----------------------------------------------------------------------------
(* Properties of the engine across pack changes, checked under Spec *)

\* C25: every channel and the per-core player of the mixer carry the mixer's
\* master volume, the clamped value of the last set_master_volume, in every
\* state: a pack change keeps the chosen volume.
C25_MasterVolumeEverywhere ==
    ChannelMasterVolumes(mixer) \subseteq {mixer.master_volume}

\* C26: whenever a pack P is recorded as current the mixer holds exactly the
\* channels built from P, a channel for each metric P has sounds for and
\* playing P's files; so it is after a load_pack that returned an error and
\* after a play() that follows it.
C26_FailedLoadConsistent ==
    is_some(current_pack) =>
        LET P == current_pack[1]
        IN  /\ is_some(mixer.cpu_playback) <=> has_sounds(P.cpu_sounds)
            /\ is_some(mixer.ram_channel) <=> has_sounds(P.ram_sounds)
            /\ is_some(mixer.disk_channel) <=> has_sounds(P.disk_sounds)
            /\ MixerUris(mixer) \subseteq PackPaths(P)

----------------------------------------------------------------------------
(* The grains and the write head (src/audio/pitch.rs, process_sample) *)

\* grains.*.behind is the distance the positions of the shifter show, up to
\* whole laps of the buffer
behind_is_distance(h, g) ==
    LET buffer_len == Len(shifter.buffer)
        d == RSub(RSub(Rat(shifter.write_pos, 1), g.read_pos), h.behind)
    IN  d[2] = 1 /\ d[1] % buffer_len = 0

BehindIsDistance == behind_is_distance(grains.a, shifter.grain_a) /\ behind_is_distance(grains.b, shifter.grain_b)

behind_write_head(h) == RLt(Zero, h.behind) /\ RLe(h.behind, Rat(Len(shifter.buffer), 1))

\* C27: for either grain, whatever the ratios set and the calls made (calls
\* on the bypass path included), read_pos is behind the write head by more
\* than 0 and at most buffer_size samples.
C27_GrainBehindWriteHead == behind_write_head(grains.a) /\ behind_write_head(grains.b)

\* the same of the calls that take the two-grain path only
GranularPathBehindWriteHead ==
    (output # None /\ granular(shifter)) => C27_GrainBehindWriteHead

\* the calls between two resets of a grain, and the calls since its last
\* reset, counted over the calls that return after warm-up
resets_every_grain_size(h) ==
    /\ h.since < shifter.grain_size
    /\ (h.reset /\ h.resets >= 2) => h.gap = shifter.grain_size

\* the other grain is half a grain (rounded either way) from its own reset
half_a_grain_apart(h, other) ==
    h.reset => other.since \in {shifter.grain_size \div 2, (shifter.grain_size + 1) \div 2}

\* C28: whatever the ratios set, after warm-up each grain resets once every
\* grain_size calls of process_sample, and the resets of grain A and grain B
\* are grain_size/2 calls apart.
C28_ResetEveryGrain ==
    /\ resets_every_grain_size(grains.a)
    /\ resets_every_grain_size(grains.b)
    /\ half_a_grain_apart(grains.a, grains.b)
    /\ half_a_grain_apart(grains.b, grains.a)

\* the same counted over the calls that take the two-grain path: a grain
\* resets once every grain_size of them
GranularResetEveryGrain ==
    \A h \in {grains.a, grains.b} :
        /\ h.steps < shifter.grain_size
        /\ (h.reset /\ h.resets >= 2) => h.run = shifter.grain_size

in_unit_phase(phase) == RLe(Zero, phase) /\ RLt(phase, One)

\* (grain_b.phase - grain_a.phase) mod 1 = 0.5, for phases in [0, 1)
half_cycle_apart(sh) ==
    /\ in_unit_phase(sh.grain_a.grain_phase)
    /\ in_unit_phase(sh.grain_b.grain_phase)
    /\ RSub(sh.grain_b.grain_phase, sh.grain_a.grain_phase) \in {Half, RSub(Zero, Half)}

\* the seam of a reset: the resetting grain has weight 0 and the other is at
\* phase 0.5 with full weight
clean_seam(g, other) ==
    /\ hann_fade(g.grain_phase) = Zero
    /\ other.grain_phase = Half
    /\ hann_fade(other.grain_phase) = One

\* the phase grain B resets to: 0 when grain_size is even, half a step otherwise
seam_phase(grain_size) == Rat(grain_size % 2, 2 * grain_size)

\* C29: in every state of the shifter the two phases are in [0, 1) and half
\* a cycle apart; when grain A resets it has weight 0 and grain B is at 0.5
\* with full weight; grain B resets to phase 0 when grain_size is even and
\* to 1 / (2 grain_size) when it is odd, grain A being half a cycle further.
C29_HalfCycleApart ==
    /\ half_cycle_apart(shifter)
    /\ grains.a.reset => clean_seam(shifter.grain_a, shifter.grain_b)
    /\ grains.b.reset =>
          /\ shifter.grain_b.grain_phase = seam_phase(shifter.grain_size)
          /\ shifter.grain_a.grain_phase = RAdd(Half, seam_phase(shifter.grain_size))
          /\ shifter.grain_size % 2 = 0 => clean_seam(shifter.grain_b, shifter.grain_a)

\* grain B has reset with an odd grain_size, grain A with an even one before
C29_Witness ==
    /\ grains.b.reset
    /\ shifter.grain_size = 3
    /\ shifter.grain_b.grain_phase = Rat(1, 6)
    /\ shifter.grain_a.grain_phase = Rat(2, 3)

\* C29 as stated: whenever either grain resets, the other is at phase 0.5
\* and the resetting grain has weight 0.
C29_HalfCycleApartStated ==
    /\ half_cycle_apart(shifter)
    /\ grains.a.reset => clean_seam(shifter.grain_a, shifter.grain_b)
    /\ grains.b.reset => clean_seam(shifter.grain_b, shifter.grain_a)

----------------------------------------------------------------------------
(* Properties of the element under two threads, checked under ThreadSpec *)

\* a mutex is held exactly while its thread is inside the critical section
MutexesMatchThreads ==
    /\ mutexes.pitch_ratio = "application" <=> application.pc = "store_pitch"
    /\ mutexes.state = "application" <=> application.pc = "set_shifter"
    /\ mutexes.pitch_ratio = "streaming" <=> streaming.pc \in {"caps_read_pitch", "ip_update_pitch"}
    /\ mutexes.state = "streaming" <=> streaming.pc \in {"caps_store", "stop_clear"} \/ in_transform_ip

\* C30: a buffer whose transform_ip starts after a set_property has returned
\* is processed with one ratio from its first sample to its last, and that
\* ratio is clamp(p, 0.25, 4.0) for p the pitch of the last set_property that
\* had returned, or of a set_property in progress at the start of the buffer
\* or called during it; this holds as well for the first buffer of a shifter
\* that set_caps stored with an older pitch.
C30_BufferUsesLatestPitch ==
    pitch_writes.covered =>
        \A k \in DOMAIN pitch_writes.used :
            /\ pitch_writes.used[k] = pitch_writes.used[1]
            /\ \E p \in pitch_writes.candidates :
                   pitch_writes.used[k] = clamp(p, Rat(1, 4), Rat(4, 1))

\* a whole buffer processed at ratio 2.0, begun with no set_property in
\* progress, on a shifter that set_caps had stored with another pitch
C30_Witness ==
    /\ pitch_writes.covered
    /\ pitch_writes.stale
    /\ pitch_writes.candidates = {Rat(2, 1)}
    /\ pitch_writes.used = <<Rat(2, 1), Rat(2, 1)>>
    /\ flow.op = "transform_ip" /\ flow.result = "Ok"
    /\ streaming.pc = "idle"

\* the mutex a thread is about to take at its position, if any (an idle
\* thread may be about to start a call)
application_wants ==
    CASE application.pc = "idle" -> {"pitch_ratio"}
      [] application.pc = "lock_state" -> {"state"}
      [] OTHER -> {}

streaming_wants ==
    CASE streaming.pc = "idle" -> {"state"}
      [] streaming.pc \in {"caps_lock_pitch"} -> {"pitch_ratio"}
      [] streaming.pc = "caps_lock_state" -> {"state"}
      [] streaming.pc = "ip_check" /\ is_some(element.state) -> {"pitch_ratio"}
      [] OTHER -> {}

\* each thread waits for a mutex the other holds
Deadlocked ==
    /\ \E name \in application_wants : mutexes[name] = "streaming"
    /\ \E name \in streaming_wants : mutexes[name] = "application"

\* the application thread can take its next step inside set_property
application_can_step ==
    \/ application.pc \in {"store_pitch", "set_shifter"}
    \/ application.pc = "lock_state" /\ mutexes.state = "free"

\* the streaming thread can take its next step inside set_caps, stop or transform_ip
streaming_can_step ==
    \/ streaming.pc \in {"caps_read_pitch", "caps_store", "stop_clear", "ip_update_pitch", "ip_map", "ip_sample"}
    \/ streaming.pc = "caps_lock_pitch" /\ mutexes.pitch_ratio = "free"
    \/ streaming.pc = "caps_lock_state" /\ mutexes.state = "free"
    \/ streaming.pc = "ip_check" /\ (~is_some(element.state) \/ mutexes.pitch_ratio = "free")

\* a call in progress can always go on: its thread or the other can step
CallsProgress ==
    (application.pc # "idle" \/ streaming.pc # "idle") => (application_can_step \/ streaming_can_step)

\* C31: set_property is never in its critical section on the shifter while
\* transform_ip is between taking the state mutex and returning (the sample
\* loop included), no step of the application thread changes the shifter
\* then, and the two threads never wait for each other's mutex: a call in
\* progress can always go on.
C31_SerializedNoDeadlock ==
    /\ ~(application.pc = "set_shifter" /\ in_transform_ip)
    /\ (in_transform_ip /\ mutexes.state # "streaming") = FALSE
    /\ ~Deadlocked
    /\ CallsProgress

\* set_property has stored its pitch and waits for the state mutex while
\* transform_ip is in its sample loop with one sample done
C31_Witness ==
    /\ application.pc = "lock_state"
    /\ streaming.pc = "ip_sample"
    /\ streaming.i = 2
    /\ mutexes.state = "streaming"

----------------------------------------------------------------------------
(* The normaliser of the disk monitor, checked under DiskSpec *)

\* C32 as stated: after every refresh activity_level <= max_activity, so the
\* ratio activity_level / max_activity is at most 1 before it is clamped.
C32_NormaliserCoversActivityStated ==
    /\ RLe(disk_monitor.activity_level, disk_monitor.max_activity)
    /\ RLe(RDiv(disk_monitor.activity_level, disk_monitor.max_activity), One)

\* what activity() returns is at most 1
C32_Reported == RLe(Activity, One)

\* a refresh that saw time pass leaves the activity at most the normaliser,
\* or at most the normaliser it started from, which it then decayed
C32_Step ==
    (disk_call'.op = "refresh" /\ disk_call'.elapsed > 0) =>
        \/ RLe(disk_monitor'.activity_level, disk_monitor'.max_activity)
        \/ /\ RLe(disk_monitor'.activity_level, disk_monitor.max_activity)
           /\ disk_monitor'.max_activity = decay(disk_monitor.max_activity)

\* C32: a refresh leaves activity_level at most max_activity, except that an
\* activity between the decayed and the previous max_activity (the previous
\* max_activity included) ends above the decayed normaliser and at most the
\* previous one; activity() is at most 1 in every case.
C32_NormaliserCoversActivity == []C32_Reported /\ [][C32_Step]_vars

\* a refresh measured exactly the previous max_activity, which then decayed
\* below it: the ratio is above 1 and activity() reports 1.0
C32_Witness ==
    /\ disk_call.op = "refresh"
    /\ disk_call.elapsed > 0
    /\ RLt(disk_monitor.max_activity, disk_monitor.activity_level)
    /\ disk_monitor.max_activity = decay(disk_monitor.activity_level)
    /\ Activity = One

\* a refresh that saw time pass and measured no more than max_activity
QuietRefresh ==
    /\ disk_call'.op = "refresh"
    /\ disk_call'.elapsed > 0
    /\ ~RLt(disk_monitor.max_activity, disk_monitor'.activity_level)

\* the counters read are the ones the previous refresh read
ZeroDelta ==
    read_disk_stats(disk_call'.content) = <<disk_monitor.last_read_sectors, disk_monitor.last_write_sectors>>

C33_Step ==
    /\ QuietRefresh =>
          /\ disk_monitor'.max_activity = RMax(RMul(disk_monitor.max_activity, Rat(999, 1000)), Rat(1000, 1))
          /\ RLe(disk_monitor'.max_activity, disk_monitor.max_activity)
          /\ RLe(Rat(1000, 1), disk_monitor'.max_activity)
          /\ RLt(Rat(1000, 1), disk_monitor.max_activity) =>
                RLt(disk_monitor'.max_activity, disk_monitor.max_activity)
    /\ (disk_call'.op = "refresh" /\ disk_call'.elapsed > 0 /\ ZeroDelta) =>
          /\ QuietRefresh
          /\ disk_monitor'.activity_level = Zero
          /\ DiskMonitor_activity(disk_monitor') = Zero

\* C33: a refresh with elapsed time whose activity does not exceed
\* max_activity sets max_activity to max(0.999 * max_activity, 1000): it does
\* not grow, decreases while it is above 1000 and is never below 1000; a
\* refresh with zero counter delta is such a refresh and reports activity 0.
C33_DecayTowardsFloor == [][C33_Step]_vars

\* a refresh with zero counter delta after a peak of 2000 sectors per second
C33_Witness ==
    /\ disk_call.op = "refresh"
    /\ disk_call.elapsed > 0
    /\ disk_monitor.activity_level = Zero
    /\ disk_monitor.max_activity = Rat(1998, 1)
    /\ read_disk_stats(disk_call.content) = <<3, 1>>
    /\ Activity = Zero

----------------------------------------------------------------------------
(* The one-pole step, checked under SmoothSpec *)

\* current + (clamp01(target) - current) * tau
OnePole(current, target_value) ==
    RAdd(current, RMul(RSub(clamp01(target_value), current), Tau))

C34_Speed ==
    /\ RLt(Zero, Tau) /\ RLe(Tau, One)
    /\ audio_channel.transition_speed = Tau
    /\ core_player.transition_speed = Tau

C34_Range ==
    /\ InUnitRange(audio_channel.current_value)
    /\ \A i \in 1..SmoothCoreCount : InUnitRange(core_player.current_values[i])

C34_State == C34_Speed /\ C34_Range

C34_Step ==
    /\ audio_channel'.current_value = OnePole(audio_channel.current_value, held'.given)
    /\ \A i \in 1..SmoothCoreCount :
          core_player'.current_values[i] = OnePole(core_player.current_values[i], held'.given)

\* C34: every update(target) of an AudioChannel, in each of its modes, and
\* every update_core of a PerCoreCpuPlayer performs current' = current +
\* (clamp01(target) - current) * tau with tau = 1 / max(slide_interval, 1) in
\* (0, 1], a slide interval of 0 included, and the smoothed values are in
\* [0, 1] in every state.
C34_OnePoleInUnitRange == []C34_State /\ [][C34_Step]_vars

\* a Disabled channel and a player with slide interval 0 given 1.5: the
\* smoothed values are at 1 after one update
C34_Witness ==
    /\ held.slide_interval = 0
    /\ held.given = Rat(3, 2)
    /\ held.k = 1
    /\ audio_channel.mode = "Disabled"
    /\ audio_channel.current_value = One
    /\ \A i \in 1..SmoothCoreCount : core_player.current_values[i] = One

----------------------------------------------------------------------------
(* load_pack: the playback chosen for each metric *)

\* the files an AudioChannel plays, as the pair <<primary, secondary>>
channel_files(ch) ==
    <<IF is_some(ch.primary) THEN Some(ch.primary[1].uri) ELSE None,
      IF is_some(ch.secondary) THEN Some(ch.secondary[1].uri) ELSE None>>

\* an AudioChannel over the given sounds whose pipelines are all centered
centered_over(ch, sounds) ==
    /\ channel_files(ch) = <<sounds.primary, sounds.secondary>>
    /\ \A e \in Elements(ch) : e.panorama = Zero

\* C35: after load_pack(pack) returned Ok on a machine with n cores, the CPU
\* playback is Averaged (one centered channel over the pack's CPU primary and
\* secondary) iff the pack has CPU sounds and use_averages is set, PerCore (a
\* player over the CPU primary with n branches) iff it has CPU sounds and
\* use_averages is not set, and absent iff the pack has no CPU sounds; the
\* RAM and disk channels exist iff the pack has their sounds, centered over
\* them; whatever the mixer held before the call.
C35_CpuPlaybackFromPack ==
    (last.op = "load_pack" /\ last.result = "Ok") =>
        LET P == PackNamed(last.arg[1])
            n == last.arg[2]
            cpu == mixer.cpu_playback
        IN  /\ (is_some(cpu) /\ cpu[1].kind = "Averaged")
                    <=> (has_sounds(P.cpu_sounds) /\ P.config.use_averages)
            /\ (is_some(cpu) /\ cpu[1].kind = "PerCore")
                    <=> (has_sounds(P.cpu_sounds) /\ ~P.config.use_averages)
            /\ ~is_some(cpu) <=> ~has_sounds(P.cpu_sounds)
            /\ (is_some(cpu) /\ cpu[1].kind = "Averaged") =>
                    centered_over(cpu[1].ch, P.cpu_sounds)
            /\ \A pl \in Players(mixer) :
                    /\ pl.uri = P.cpu_sounds.primary[1]
                    /\ core_count(pl) = n
                    /\ Len(pl.pitch_elements) = n
                    /\ Len(pl.panorama_elements) = n
            /\ is_some(mixer.ram_channel) <=> has_sounds(P.ram_sounds)
            /\ is_some(mixer.ram_channel) => centered_over(mixer.ram_channel[1], P.ram_sounds)
            /\ is_some(mixer.disk_channel) <=> has_sounds(P.disk_sounds)
            /\ is_some(mixer.disk_channel) => centered_over(mixer.disk_channel[1], P.disk_sounds)

\* a per-core pack loaded on a four-core machine over a mixer that held the
\* averaged pack's channels while playing
C35_Witness ==
    /\ last.op = "load_pack"
    /\ last.result = "Ok"
    /\ last.arg = <<"percore", 4>>
    /\ Players(mixer) # {}
    /\ \A pl \in Players(mixer) : core_count(pl) = 4
    /\ ~is_some(mixer.ram_channel)

----------------------------------------------------------------------------
(* The pack selector after a reload *)

\* while monitoring, a selected row of the dialog's list is the selected pack
\* index and the Start button is enabled
C36_RowSelectable ==
    (app.is_monitoring /\ is_some(app.startup_dialog)
        /\ is_some(app.startup_dialog[1].selected_row)) =>
        /\ app.selected_pack_index = app.startup_dialog[1].selected_row
        /\ app.startup_dialog[1].start_sensitive

\* a Start that loads a pack loads the one listed in the selected row
C36_StartLoadsRow ==
    (app_call'.op = "start" /\ app.is_monitoring /\ current_pack' # current_pack) =>
        LET d == app.startup_dialog[1]
        IN  /\ is_some(d.selected_row)
            /\ d.rows = app.available_packs
            /\ current_pack' = Some(d.rows[d.selected_row[1] + 1])

\* C36: after the pack selector reloaded the pack list while monitoring, every
\* row i of the refreshed list can be selected and started: selecting row i
\* sets selected_pack_index to i and enables Start, and Start loads
\* available_packs[i], the pack shown in that row.
C36_ReloadedRowsStart == []C36_RowSelectable /\ [][C36_StartLoadsRow]_vars

----------------------------------------------------------------------------
(* The timer tick, checked under TickSpec *)

\* where update_tick is: the sampler was refreshed once and update() has come
\* as far as the position says, block by block from the mixer the tick began
\* with
C37_InOrder ==
    LET before == tick.before[1]
        metrics == snapshot[1]
        cpu_done == update_cpu_playback(before, metrics, cpu_enabled)
        ram_done == update_ram_channel(cpu_done, metrics, ram_enabled)
    IN  /\ tick.pc = "idle" => ~is_some(tick.before)
        /\ tick.pc # "idle" => (is_some(snapshot) /\ tick.refreshes = 1)
        /\ tick.pc = "refreshed" => (tick.updates = 0 /\ mixer = before)
        /\ tick.pc = "cpu" => (tick.updates = 1 /\ mixer = cpu_done)
        /\ tick.pc = "ram" => (tick.updates = 1 /\ mixer = ram_done)

\* a step of the tick: the refresh gives a new snapshot of the sampler, nothing
\* but update() runs until the tick is over, and the tick has then given that
\* snapshot to update() once
C37_Step ==
    /\ (tick.pc = "idle" /\ tick'.pc # "idle") =>
            /\ tick'.pc = "refreshed"
            /\ clock' = clock + 1
            /\ snapshot' = Some(SystemMonitor_refresh(system', disk_monitor'))
    /\ tick.pc # "idle" =>
            /\ <<tick.pc, tick'.pc>> \in {<<"refreshed", "cpu">>, <<"cpu", "ram">>, <<"ram", "idle">>}
            /\ UNCHANGED <<appVars, monitorVars, diskVars, holder>>
            /\ UNCHANGED <<current_pack, is_playing, cpu_enabled, ram_enabled, disk_enabled>>
            /\ mixer'.master_volume = mixer.master_volume
    /\ (tick.pc = "ram" /\ tick'.pc = "idle") =>
            /\ tick.refreshes = 1
            /\ tick.updates = 1
            /\ mixer' = AudioEngine_update(tick.before[1], snapshot[1],
                                            cpu_enabled, ram_enabled, disk_enabled)
    /\ tick.pc = "idle" => (mixer' # mixer => mixer'.master_volume # mixer.master_volume)

\* C37: every timer tick refreshes the sampler exactly once and then passes
\* that snapshot to the engine exactly once; within the tick the CPU playback
\* is updated first, then the RAM channel, then the disk channel; and no other
\* callback runs between the statements of a tick.
C37_TickInOrder == []C37_InOrder /\ [][C37_Step]_vars

\* a tick of the averaged pack that has updated the CPU channel and the RAM
\* channel and has the disk block still to run
C37_Witness ==
    /\ tick.pc = "ram"
    /\ current_pack = Some(PackAveraged)
    /\ mixer.cpu_playback # tick.before[1].cpu_playback
    /\ mixer.ram_channel # tick.before[1].ram_channel
    /\ ~cpu_enabled

----------------------------------------------------------------------------
(* Callbacks after the App was dropped, checked under HolderSpec *)

\* a timer's closure ran in this step and found the App gone
BrokeTimer == tick'.refused = Some("timeout") /\ <<tick, main_context>>' # <<tick, main_context>>

\* once the App is dropped nothing changes the engine, the sampler or the App;
\* a timer that fires is removed from the main context and no timer is added
C38_Step ==
    holder = "dropped" =>
        /\ holder' = "dropped"
        /\ UNCHANGED <<engineVars, historyVars, diskVars, monitorVars, app, app_call>>
        /\ tick'.pc = "idle"
        /\ main_context'.sources \subseteq main_context.sources
        /\ main_context'.next_id = main_context.next_id
        /\ main_context'.running = main_context.running
        /\ BrokeTimer => Cardinality(main_context'.sources) = Cardinality(main_context.sources) - 1
        /\ ~BrokeTimer => main_context' = main_context

\* C38: once the App holder has been dropped, every callback that captured a
\* weak reference does nothing to the engine or the sampler: a timer that is
\* still registered returns Break when it next fires and is gone for good, and
\* the refresh-rate, volume, toggle and show-window handlers leave all state
\* unchanged.
C38_DroppedAppCallbacks == [][C38_Step]_vars

\* the App was dropped with a leaked timer registered; the timer has fired and
\* is gone, and the volume handler ran after it
C38_Witness ==
    /\ holder = "dropped"
    /\ main_context.next_id >= 3
    /\ main_context.sources = {}
    /\ tick.refused = Some("on_volume_changed")

----------------------------------------------------------------------------
(* The frame of update_core *)

\* the core indices and the targets update_core is tried with
CoreIndices == 0..AppCoreCount

CoreTargets == {Rat(-1, 2), Half, Rat(3, 2)}

\* two players that differ at most in the smoothed value, the volume and the
\* pitch of branch i (1-based)
same_but_core(p, q, i) ==
    /\ DOMAIN q = DOMAIN p
    /\ \A f \in DOMAIN p \ {"current_values", "volume_elements", "pitch_elements"} : q[f] = p[f]
    /\ \A f \in {"current_values", "volume_elements", "pitch_elements"} :
          /\ Len(q[f]) = Len(p[f])
          /\ \A j \in 1..Len(p[f]) : j # i => q[f][j] = p[f][j]

\* update_core(i, target) on every player the engine can hold: only branch i
\* changes, and nothing changes when i >= core_count
C39_UpdateCoreFrame ==
    \A pl \in Players(mixer), i \in CoreIndices, target \in CoreTargets :
        LET after == PerCoreCpuPlayer_update_core(pl, i, target)
        IN  /\ i >= core_count(pl) => after = pl
            /\ i < core_count(pl) =>
                  /\ same_but_core(pl, after, i + 1)
                  /\ after.current_values[i + 1] =
                        smooth(pl.current_values[i + 1], clamp(target, Zero, One),
                               pl.transition_speed)

\* update(metrics) on a per-core player: the branches stay as many, the cores
\* the snapshot has no value for are smoothed toward 0.0, and the values past
\* the last branch are not used
C39_UpdatePads ==
    (last'.op = "update") =>
        \A pl \in Players(mixer) :
            LET after == mixer'.cpu_playback[1].player
                given == last'.arg[1].cpu_cores
                N == core_count(pl)
            IN  /\ Players(mixer') = {after}
                /\ core_count(after) = N
                /\ \A f \in DOMAIN pl \ {"current_values", "volume_elements", "pitch_elements"} :
                      after[f] = pl[f]
                /\ \A i \in 1..N : i > Len(given) =>
                      after.current_values[i] =
                          smooth(pl.current_values[i], Zero, pl.transition_speed)
                /\ \A i \in 1..N : (i <= Len(given) /\ cpu_enabled) =>
                      after.current_values[i] =
                          smooth(pl.current_values[i], given[i], pl.transition_speed)

\* C39: update_core(i, target) changes only core i's smoothed value, volume
\* and pitch and leaves every other core unchanged; with i >= core_count it
\* changes nothing; and update given a snapshot with fewer per-core values
\* than the player has branches feeds 0.0 to the missing cores and ignores
\* surplus values.
C39_UpdateCoreFrameAndPadding == []C39_UpdateCoreFrame /\ [][C39_UpdatePads]_vars

\* a four-branch player updated from a snapshot with two per-core values: the
\* first core has moved, the last two are at 0.0
C39_Witness ==
    /\ last.op = "update"
    /\ last.arg = <<MetricsMixed>>
    /\ cpu_enabled
    /\ \E pl \in Players(mixer) :
          /\ core_count(pl) = 4
          /\ pl.current_values[1] # Zero
          /\ pl.current_values[2] = Zero
          /\ pl.current_values[3] = Zero
          /\ pl.current_values[4] = Zero

----------------------------------------------------------------------------
(* The enable flags *)

\* the flags a call may change: its own for a setter, none for any other call
OwnFlags(op) ==
    CASE op = "set_cpu_enabled" -> {"cpu"}
      [] op = "set_ram_enabled" -> {"ram"}
      [] op = "set_disk_enabled" -> {"disk"}
      [] OTHER -> {}

\* the smoothed values of the channels of a metric (of every core for a
\* per-core player)
ValuesOf(m, which) ==
    CASE which = "cpu" ->
            {ch.current_value : ch \in Channels([m EXCEPT !.ram_channel = None,
                                                          !.disk_channel = None])}
            \cup UNION {{pl.current_values[i] : i \in DOMAIN pl.current_values} : pl \in Players(m)}
      [] which = "ram" -> IF is_some(m.ram_channel) THEN {m.ram_channel[1].current_value} ELSE {}
      [] which = "disk" -> IF is_some(m.disk_channel) THEN {m.disk_channel[1].current_value} ELSE {}

\* a call changes no flag but its own, a setter sets its flag to the value
\* given, and the first update after a load_pack leaves the channels of a
\* disabled metric at 0.0
C40_Step ==
    LET own == OwnFlags(last'.op)
    IN  /\ "cpu" \notin own => cpu_enabled' = cpu_enabled
        /\ "ram" \notin own => ram_enabled' = ram_enabled
        /\ "disk" \notin own => disk_enabled' = disk_enabled
        /\ "cpu" \in own => cpu_enabled' = last'.arg[1]
        /\ "ram" \in own => ram_enabled' = last'.arg[1]
        /\ "disk" \in own => disk_enabled' = last'.arg[1]
        /\ (last.op = "load_pack" /\ last'.op = "update") =>
              /\ ~cpu_enabled => ValuesOf(mixer', "cpu") \subseteq {Zero}
              /\ ~ram_enabled => ValuesOf(mixer', "ram") \subseteq {Zero}
              /\ ~disk_enabled => ValuesOf(mixer', "disk") \subseteq {Zero}

\* C40: load_pack, play, stop and update leave cpu_enabled, ram_enabled and
\* disk_enabled unchanged, so a metric that was disabled stays disabled across
\* a pack change and the channel the new pack has for it is fed 0.0 by the
\* next update; only set_cpu_enabled, set_ram_enabled and set_disk_enabled
\* change a flag, each its own and to the value given.
C40_FlagsKept == [][C40_Step]_vars

\* the first update after a pack change with the RAM metric disabled: the CPU
\* channel has moved and the RAM channel of the new pack is still at 0.0
C40_Witness ==
    /\ last.op = "update"
    /\ ticks = 1
    /\ current_pack = Some(PackAveraged)
    /\ ~ram_enabled
    /\ cpu_enabled
    /\ ValuesOf(mixer, "ram") = {Zero}
    /\ ValuesOf(mixer, "cpu") = {One}

====
